---- MODULE Spec2Model ----
(***************************************************************************)
(* Risk-managed order lifecycle of the Polymarket up/down bot:             *)
(* UpDownLagArbStrategy.generate_orders, OrderManager.submit_with_risk,    *)
(* OrderManager.poll_status, JsonStateStore and PaperLedger, driven by the *)
(* polling cycle of runner_live.main (evaluate, submit each intent, poll). *)
(* The cycle applies the three components in the order of runner_live.main  *)
(* lines 130-133; the runner's call passes generate_orders a second         *)
(* argument its signature does not take, which is left to the properties   *)
(* of the runner: here generate_orders is applied to the market list.      *)
(*                                                                         *)
(* Amounts are integers in a scaled money unit; prices are in per-mille of *)
(* one unit (500 = 0.5); a quotient the code computes in floating point is *)
(* rounded down to the unit.  Times are integer ticks of a clock that      *)
(* starts at 1, so that a stored timestamp is never the falsy value 0.     *)
(***************************************************************************)
EXTENDS Integers, Sequences, FiniteSets, TLC

\* ---------------------------------------------------------------- bounds
MaxTime == 5
MaxCrashes == 1
MaxCalls == 2
MaxBreakerTime == 8
MaxSplitNotional == 7
MaxSplitChild == 3
MaxStoreTime == 5
MaxStoreCrashes == 1
MaxUpserts == 2
MaxClampCash == 12
MaxClampNotional == 3
MaxClampMinimum == 2

\* ------------------------------------------------- configuration (scaled)
\* One setting of StrategyConfig and of the environment variables load_config
\* reads, in the model's units (money scaled, times in ticks, fractions in
\* per cent, prices and fee rates in per-mille).  The amounts are set so that
\* an intent splits into two children and the caps admit both; the times keep
\* the order cooldown <= min_time_to_end < max_time_to_end < max_state_age.
MinTimeToEnd == 1
MaxTimeToEnd == 2
TradeCooldown == 1
MaxStateAge == 3
MaxEntryPrice == 920
FeeEstimate == 10
MinEdge == 3
MaxNotionalPerTrade == 4
MaxNotionalPerMarket == 5
MaxTotalNotional == 6
MaxChildNotional == 2
MaxTotalExposurePct == 50
PaperInitialCash == 10
PaperMaxFractionPct == 50
PaperMaxOpenOrders == 2
PaperMinNotional == 1
LiveInitialCash == 0
LiveRollThreshold == 10
LiveMaxNotionalBelowThreshold == 1
LiveMaxFractionPct == 50
LiveMinNotional == 1
LiveSpentHold == 1
MaxConsecutiveLosses == 3
TradeFeeRate == 0

\* ------------------------------------------------------ the market catalog
Markets == 1..8
Outcomes == {"Up", "Down"}
AssetOf(m) == IF m = 1 THEN "BTC" ELSE IF m = 8 THEN "SOL" ELSE "ETH"
Assets == {AssetOf(m) : m \in Markets}
StartOf(m) == 0
EndOf(m) == IF m = 8 THEN 4 ELSE m + 2
Keys == Markets \X Outcomes
Tokens == Keys
None == "None"

\* what the price feeds can answer for one market in one evaluation pass:
\* no admissible signal, or the favoured side and its best ask (per-mille)
Asks == {500, 950}
OffersOn(sides) == {[side |-> None, ask |-> 0]} \cup [side : sides, ask : Asks]

\* what the settlement-fee estimate can be (gas price times token price)
SettlementFees == {0, 1}
\* what the balance endpoint can report for cash, for the account value and
\* for the value of the positions; -1 stands for a field that is absent (None)
LiveCashValues == {12}
LiveTotalValues == {-1, 12}
LivePositionsValues == {-1}
\* the position snapshots the positions endpoint can return: the tokens held
\* (size > 0) and the summed USD value of the positions
PositionSnapshots(tokens) ==
    {[held |-> {}, value |-> 0]} \cup {[held |-> {t}, value |-> 2] : t \in tokens}

Min(a, b) == IF a <= b THEN a ELSE b
Max(a, b) == IF a >= b THEN a ELSE b

VARIABLES
    mode,            \* cfg.mode: "paper" or "live"
    env,             \* the run's surroundings: the markets discovery lists and
                     \* the sides the reference asset's move can favour
    now,             \* the wall clock
    pc,              \* position of the polling cycle
    crashes,         \* number of process restarts so far
    traded_keys,     \* strategy.traded_keys (markets already emitted)
    last_trade_ts,   \* strategy.last_trade_ts_by_asset
    consecutive_losses, \* strategy.consecutive_losses
    orders,          \* store.state["orders"], in memory
    paper,           \* store.state["paper"], in memory
    disk,            \* the state file: [orders, paper]
    ledger,          \* the paper ledger's trade file (durable)
    positions,       \* manager.positions.token_sizes: tokens held
    live,            \* live_cash_usd, live_total_value_usd, spent_local_until
    queue,           \* intents of the current cycle not yet submitted
    pass,            \* the running submit_with_risk / poll_status call
    accepted,        \* the transport: notional it accepted, per key
    emitted          \* intents emitted per market since the process started

vars == <<mode, env, now, pc, crashes, traded_keys, last_trade_ts, consecutive_losses,
          orders, paper, disk, ledger, positions, live, queue, pass, accepted, emitted>>

\* ------------------------------------------------------------ JsonStateStore
EmptyDict == [f \in {} |-> 0]

Field(st, f, default) == IF f \in DOMAIN st THEN st[f] ELSE default

HasOrder(os, key) == key \in DOMAIN os

StatusOf(os, key) == IF HasOrder(os, key) THEN Field(os[key], "status", "") ELSE ""

\* a variant of Merge that replaces the record by the patch
Merge_Replace(cur, patch, t) ==
    [f \in DOMAIN patch \cup {"updated_at"} |-> IF f = "updated_at" THEN t ELSE patch[f]]

\* a variant of Merge that adds a patched total to the total the record has
Merge_Accumulate(cur, patch, t) ==
    [f \in DOMAIN cur \cup DOMAIN patch \cup {"updated_at"} |->
        IF f = "updated_at" THEN t
        ELSE IF f \in DOMAIN patch
             THEN IF f = "total_notional" /\ f \in DOMAIN cur THEN cur[f] + patch[f]
                  ELSE patch[f]
             ELSE cur[f]]

\* dict.update(patch) followed by the updated_at stamp
Merge(cur, patch, t) ==
    [f \in DOMAIN cur \cup DOMAIN patch \cup {"updated_at"} |->
        IF f = "updated_at" THEN t
        ELSE IF f \in DOMAIN patch THEN patch[f] ELSE cur[f]]

upsert_order(os, key, patch, t) ==
    LET cur == IF HasOrder(os, key) THEN os[key] ELSE EmptyDict
    IN  [k \in DOMAIN os \cup {key} |-> IF k = key THEN Merge(cur, patch, t) ELSE os[k]]

\* a plain assignment orders[key][f] = v for each field of patch (no stamp)
SetFields(os, key, patch) ==
    [os EXCEPT ![key] = [f \in DOMAIN os[key] \cup DOMAIN patch |->
                            IF f \in DOMAIN patch THEN patch[f] ELSE os[key][f]]]

\* a variant of Expired that evicts a record at exactly max age
Expired_AtMaxAge(st, t) ==
    LET updated_at == Field(st, "updated_at", 0)
    IN  updated_at # 0 /\ t - updated_at >= MaxStateAge

Expired(st, t) ==
    LET updated_at == Field(st, "updated_at", 0)
    IN  updated_at # 0 /\ t - updated_at > MaxStateAge

cleanup(os, t) == [k \in {x \in DOMAIN os : ~Expired(os[x], t)} |-> os[k]]

\* a variant of save that writes a state file without the orders
save_NoOrders(os, pp) == [orders |-> EmptyDict, paper |-> pp]

\* JsonStateStore.save: the whole in-memory state replaces the state file
save(os, pp) == [orders |-> os, paper |-> pp]

\* the steps of JsonStateStore.save on the two files it touches, the state
\* file ("path") and the temporary file next to it ("tmp"): a file opened for
\* writing is truncated and holds a partial document (Torn) until json.dump
\* has written all of it; os.replace moves the source onto the destination
Torn == [torn |-> TRUE]

Absent == [absent |-> TRUE]

\* a variant of TmpName that writes the state file in place
TmpName_InPlace == "path"

TmpName == "tmp"

OpenForWrite(files, name) == [files EXCEPT ![name] = Torn]

DumpTo(files, name, state) == [files EXCEPT ![name] = state]

Replace(files, src, dst) ==
    IF src = dst THEN files
    ELSE [files EXCEPT ![dst] = files[src], ![src] = Absent]

InitialPaper ==
    [cash |-> PaperInitialCash, realized_pnl |-> 0, fees_paid |-> 0,
     trades |-> 0, wins |-> 0, losses |-> 0]

\* OrderManager.load on the state file: store.load, store.cleanup, the paper
\* account created when the file has none
LoadOrders(d, t) == cleanup(d.orders, t)
LoadPaper(d, md) ==
    IF md = "paper" /\ "cash" \notin DOMAIN d.paper THEN InitialPaper ELSE d.paper

\* ------------------------------------------------------- UpDownLagArbStrategy
_has_too_many_losses(losses, asset) == losses[asset] >= MaxConsecutiveLosses

update_trade_result(losses, asset, is_win) ==
    [losses EXCEPT ![asset] = IF is_win THEN 0 ELSE @ + 1]

Intent(m, offer, notional) ==
    [market |-> m, asset |-> AssetOf(m), outcome |-> offer.side,
     token |-> <<m, offer.side>>, price |-> offer.ask,
     size |-> (notional * 1000) \div offer.ask, notional |-> notional,
     start_time |-> StartOf(m), end_time |-> EndOf(m)]

\* a variant of EvaluateMarket that does not consult traded_keys
EvaluateMarket_NoTradedKeys(st, m, offer, t, losses) ==
    LET asset == AssetOf(m)
        last_ts == st.last_ts[asset]
        time_to_end == EndOf(m) - t
        remaining == MaxTotalNotional - st.total
        notional == Min(remaining, Min(MaxNotionalPerMarket, MaxNotionalPerTrade))
    IN  IF st.stopped THEN st
        ELSE IF last_ts # 0 /\ t - last_ts < TradeCooldown THEN st
        ELSE IF time_to_end < MinTimeToEnd \/ time_to_end > MaxTimeToEnd THEN st
        ELSE IF t <= StartOf(m) THEN st
        ELSE IF offer.side = None THEN st
        ELSE IF _has_too_many_losses(losses, asset) THEN st
        ELSE IF offer.ask > MaxEntryPrice THEN st
        ELSE IF 1000 - offer.ask - FeeEstimate < MinEdge THEN st
        ELSE IF remaining <= 0 THEN [st EXCEPT !.stopped = TRUE]
        ELSE [orders |-> Append(st.orders, Intent(m, offer, notional)),
              total |-> st.total + notional,
              traded |-> st.traded \cup {m},
              last_ts |-> [st.last_ts EXCEPT ![asset] = t],
              stopped |-> FALSE]

\* one iteration of the loop over the markets; st carries the loop's state:
\* orders, total_notional, traded_keys, last_trade_ts_by_asset, and whether
\* the loop was left by break
\* a variant of EvaluateMarket that sizes an intent without the budget
EvaluateMarket_NoBudget(st, m, offer, t, losses) ==
    LET asset == AssetOf(m)
        last_ts == st.last_ts[asset]
        time_to_end == EndOf(m) - t
        notional == Min(MaxNotionalPerMarket, MaxNotionalPerTrade)
    IN  IF st.stopped THEN st
        ELSE IF m \in st.traded THEN st
        ELSE IF last_ts # 0 /\ t - last_ts < TradeCooldown THEN st
        ELSE IF time_to_end < MinTimeToEnd \/ time_to_end > MaxTimeToEnd THEN st
        ELSE IF t <= StartOf(m) THEN st
        ELSE IF offer.side = None THEN st
        ELSE IF _has_too_many_losses(losses, asset) THEN st
        ELSE IF offer.ask > MaxEntryPrice THEN st
        ELSE IF 1000 - offer.ask - FeeEstimate < MinEdge THEN st
        ELSE [orders |-> Append(st.orders, Intent(m, offer, notional)),
              total |-> st.total + notional,
              traded |-> st.traded \cup {m},
              last_ts |-> [st.last_ts EXCEPT ![asset] = t],
              stopped |-> FALSE]

\* a variant of EvaluateMarket without the cooldown test
EvaluateMarket_NoCooldown(st, m, offer, t, losses) ==
    LET asset == AssetOf(m)
        time_to_end == EndOf(m) - t
        remaining == MaxTotalNotional - st.total
        notional == Min(remaining, Min(MaxNotionalPerMarket, MaxNotionalPerTrade))
    IN  IF st.stopped THEN st
        ELSE IF m \in st.traded THEN st
        ELSE IF time_to_end < MinTimeToEnd \/ time_to_end > MaxTimeToEnd THEN st
        ELSE IF t <= StartOf(m) THEN st
        ELSE IF offer.side = None THEN st
        ELSE IF _has_too_many_losses(losses, asset) THEN st
        ELSE IF offer.ask > MaxEntryPrice THEN st
        ELSE IF 1000 - offer.ask - FeeEstimate < MinEdge THEN st
        ELSE IF remaining <= 0 THEN [st EXCEPT !.stopped = TRUE]
        ELSE [orders |-> Append(st.orders, Intent(m, offer, notional)),
              total |-> st.total + notional,
              traded |-> st.traded \cup {m},
              last_ts |-> [st.last_ts EXCEPT ![asset] = t],
              stopped |-> FALSE]

EvaluateMarket(st, m, offer, t, losses) ==
    LET asset == AssetOf(m)
        last_ts == st.last_ts[asset]
        time_to_end == EndOf(m) - t
        remaining == MaxTotalNotional - st.total
        notional == Min(remaining, Min(MaxNotionalPerMarket, MaxNotionalPerTrade))
    IN  IF st.stopped THEN st
        ELSE IF m \in st.traded THEN st
        ELSE IF last_ts # 0 /\ t - last_ts < TradeCooldown THEN st
        ELSE IF time_to_end < MinTimeToEnd \/ time_to_end > MaxTimeToEnd THEN st
        ELSE IF t <= StartOf(m) THEN st
        ELSE IF offer.side = None THEN st
        ELSE IF _has_too_many_losses(losses, asset) THEN st
        ELSE IF offer.ask > MaxEntryPrice THEN st
        ELSE IF 1000 - offer.ask - FeeEstimate < MinEdge THEN st
        ELSE IF remaining <= 0 THEN [st EXCEPT !.stopped = TRUE]
        ELSE [orders |-> Append(st.orders, Intent(m, offer, notional)),
              total |-> st.total + notional,
              traded |-> st.traded \cup {m},
              last_ts |-> [st.last_ts EXCEPT ![asset] = t],
              stopped |-> FALSE]

RECURSIVE EvaluateFrom(_, _, _, _, _, _)
EvaluateFrom(st, ms, i, offers, t, losses) ==
    IF i > Len(ms) THEN st
    ELSE EvaluateFrom(EvaluateMarket(st, ms[i], offers[ms[i]], t, losses),
                      ms, i + 1, offers, t, losses)

generate_orders(ms, offers, t, traded, last_ts, losses) ==
    EvaluateFrom([orders |-> <<>>, total |-> 0, traded |-> traded,
                  last_ts |-> last_ts, stopped |-> FALSE],
                 ms, 1, offers, t, losses)

\* the market list of a cycle, in the order the discovery workers finished
MarketLists(listed) ==
    {ms \in [1..Cardinality(listed) -> listed] : \A i, j \in DOMAIN ms : ms[i] = ms[j] => i = j}

\* --------------------------------------------------------------- OrderManager
_order_key(order) == <<order.market, order.outcome>>

\* a variant of should_skip that lets a submitted record through
should_skip_OnlyFinal(os, key) == StatusOf(os, key) \in {"filled", "settled"}

should_skip(os, key) == StatusOf(os, key) \in {"submitted", "filled", "settled"}

\* a variant of _position_exposure that never finds a position
_position_exposure_Blind(pos, token) == 0

_position_exposure(pos, token) == IF token \in pos.held THEN 1 ELSE 0

RECURSIVE SumNotional(_, _)
SumNotional(os, ks) ==
    IF ks = {} THEN 0
    ELSE LET k == CHOOSE x \in ks : TRUE
         IN  Field(os[k], "total_notional", 0) + SumNotional(os, ks \ {k})

_open_orders_notional(os, statuses) ==
    SumNotional(os, {k \in DOMAIN os : StatusOf(os, k) \in statuses})

_paper_cash(pp) == Field(pp, "cash", 0)

\* a variant of _paper_open_orders_count that finds no open record
_paper_open_orders_count_None(os) == 0

_paper_open_orders_count(os) ==
    Cardinality({k \in DOMAIN os : StatusOf(os, k) = "submitted"})

\* submitted records, and filled records whose token is not in the snapshot
_live_open_orders_notional(os, pos) ==
    SumNotional(os, {k \in DOMAIN os :
        \/ StatusOf(os, k) = "submitted"
        \/ StatusOf(os, k) = "filled" /\ Field(os[k], "token_id", k) \notin pos.held})

LivePositionsValue(lv, pos) ==
    IF lv.positions_value >= 0 THEN lv.positions_value ELSE pos.value

TieredCap(equity) ==
    IF LiveRollThreshold > 0 /\ equity < LiveRollThreshold
    THEN Max(LiveMaxNotionalBelowThreshold, 0)
    ELSE Max((equity * MaxTotalExposurePct) \div 100, 0)

_max_total_exposure_usd(md, os, pp, lv, pos) ==
    IF MaxTotalExposurePct <= 0 THEN 0
    ELSE IF md = "paper"
         THEN TieredCap(_paper_cash(pp) + _open_orders_notional(os, {"submitted", "filled"}))
    ELSE IF lv.total_value >= 0 THEN TieredCap(lv.total_value)
    ELSE TieredCap(lv.cash + LivePositionsValue(lv, pos) + _live_open_orders_notional(os, pos))

_current_total_exposure_usd(md, os, lv, pos) ==
    IF md = "paper"
    THEN Max(_open_orders_notional(os, {"submitted", "filled"}), 0)
    ELSE Max(LivePositionsValue(lv, pos) + _live_open_orders_notional(os, pos), 0)

_remaining_total_exposure_usd(md, os, pp, lv, pos) ==
    Max(_max_total_exposure_usd(md, os, pp, lv, pos)
        - _current_total_exposure_usd(md, os, lv, pos), 0)

_live_max_notional(lv) ==
    IF lv.cash <= 0 THEN 0
    ELSE IF lv.cash < LiveRollThreshold THEN LiveMaxNotionalBelowThreshold
    ELSE (lv.cash * LiveMaxFractionPct) \div 100

WithNotional(order, notional) ==
    [order EXCEPT !.notional = notional, !.size = (notional * 1000) \div order.price]

\* the while loop of _plan_children
RECURSIVE SplitChildren(_, _, _)
SplitChildren(order, remaining, max_child) ==
    IF remaining > 0
    THEN LET notional == Min(max_child, remaining)
         IN  <<WithNotional(order, notional)>>
                \o SplitChildren(order, remaining - notional, max_child)
    ELSE <<>>

\* a variant of PlanChildren that never splits
PlanChildren_NoSplit(order, max_child) == <<order>>

\* _plan_children as a function of the configured max child notional
PlanChildren(order, max_child) ==
    IF max_child <= 0 \/ order.notional <= max_child THEN <<order>>
    ELSE SplitChildren(order, order.notional, max_child)

_plan_children(order) == PlanChildren(order, MaxChildNotional)

\* the clamp of one child: "break" leaves the loop, otherwise the notional the
\* child is submitted with
\* a variant of PaperClampWith without the fraction-of-capital bound
PaperClampWith_NoFraction(child, os, pp, exposure_remaining, min_notional) ==
    LET cash == _paper_cash(pp)
        spendable == IF FeeEstimate >= 0 THEN (cash * 1000) \div (1000 + FeeEstimate) ELSE cash
        notional == Min(Min(child.notional, spendable), exposure_remaining)
    IN  IF _paper_open_orders_count(os) >= PaperMaxOpenOrders THEN -1
        ELSE IF cash <= 0 THEN -1
        ELSE IF notional < min_notional THEN -1
        ELSE notional

PaperClampWith(child, os, pp, exposure_remaining, min_notional) ==
    LET cash == _paper_cash(pp)
        spendable == IF FeeEstimate >= 0 THEN (cash * 1000) \div (1000 + FeeEstimate) ELSE cash
        max_by_fraction == (spendable * PaperMaxFractionPct) \div 100
        notional == Min(Min(child.notional, spendable), Min(max_by_fraction, exposure_remaining))
    IN  IF _paper_open_orders_count(os) >= PaperMaxOpenOrders THEN -1
        ELSE IF cash <= 0 THEN -1
        ELSE IF notional < min_notional THEN -1
        ELSE notional

PaperClamp(child, os, pp, exposure_remaining) ==
    PaperClampWith(child, os, pp, exposure_remaining, PaperMinNotional)

LiveClampWith(child, lv, exposure_remaining, min_notional) ==
    LET cap == _live_max_notional(lv)
        spendable == IF TradeFeeRate >= 0 THEN (lv.cash * 1000) \div (1000 + TradeFeeRate) ELSE lv.cash
        notional == Min(Min(child.notional, cap), Min(spendable, exposure_remaining))
    IN  IF cap > 0
        THEN IF notional < min_notional THEN -1 ELSE notional
        ELSE child.notional

LiveClamp(child, lv, exposure_remaining) ==
    LiveClampWith(child, lv, exposure_remaining, LiveMinNotional)

\* the child handed to the transport: rebuilt with the clamped notional and
\* the size that goes with it when the clamp changed the notional
ClampedChild(child, notional) ==
    IF notional # child.notional THEN WithNotional(child, notional) ELSE child

\* the clamp of one child as a function of the exposure headroom and of the
\* mode's configured minimum notional
ClampWith(md, child, os, pp, lv, exposure_remaining, min_notional) ==
    IF exposure_remaining <= 0 THEN -1
    ELSE IF md = "paper" THEN PaperClampWith(child, os, pp, exposure_remaining, min_notional)
    ELSE LiveClampWith(child, lv, exposure_remaining, min_notional)

\* -1: break; otherwise the notional passed to the transport
ChildNotional(md, child, os, pp, lv, pos) ==
    LET exposure_remaining == _remaining_total_exposure_usd(md, os, pp, lv, pos)
    IN  IF exposure_remaining <= 0 THEN -1
        ELSE IF md = "paper" THEN PaperClamp(child, os, pp, exposure_remaining)
        ELSE LiveClamp(child, lv, exposure_remaining)

_paper_apply_buy(pp, notional) ==
    LET fee == (TradeFeeRate * notional) \div 1000
    IN  [pp EXCEPT !.cash = @ - (notional + fee), !.fees_paid = @ + fee, !.trades = @ + 1]

\* a variant of _paper_apply_settlement that credits the payout without
\* taking the settlement fee off
_paper_apply_settlement_NoFee(pp, pnl, payout, win, settlement_fee) ==
    [pp EXCEPT !.cash = @ + payout,
               !.realized_pnl = @ + pnl,
               !.fees_paid = @ + settlement_fee,
               !.wins = IF win THEN @ + 1 ELSE @,
               !.losses = IF win THEN @ ELSE @ + 1]

_paper_apply_settlement(pp, pnl, payout, win, settlement_fee) ==
    [pp EXCEPT !.cash = @ + payout - settlement_fee,
               !.realized_pnl = @ + pnl,
               !.fees_paid = @ + settlement_fee,
               !.wins = IF win THEN @ + 1 ELSE @,
               !.losses = IF win THEN @ ELSE @ + 1]

\* the replies of the execution transport: PaperExecutor always accepts and
\* gives no order id; LiveClobExecutor accepts or fails, with or without an id
Replies(md) ==
    IF md = "paper" THEN {[success |-> TRUE, message |-> "paper", has_id |-> FALSE]}
    ELSE {[success |-> TRUE, message |-> "ok", has_id |-> TRUE],
          [success |-> FALSE, message |-> "failed", has_id |-> FALSE],
          [success |-> FALSE, message |-> "failed", has_id |-> TRUE]}

\* the refreshes at the head of submit_with_risk and poll_status: each is
\* skipped inside its refresh interval or when the request fails
RefreshedLive(md, lv, t) ==
    IF md # "live" THEN {lv}
    ELSE {lv} \cup
         {[cash |-> IF c < 0 THEN lv.cash
                    ELSE IF t < lv.spent_until /\ c >= lv.cash THEN lv.cash ELSE c,
           total_value |-> IF tv < 0 THEN lv.total_value ELSE tv,
           positions_value |-> IF pv < 0 THEN lv.positions_value ELSE pv,
           spent_until |-> lv.spent_until] :
             c \in LiveCashValues \cup {-1}, tv \in LiveTotalValues, pv \in LivePositionsValues}

RefreshedPositions(pos, tokens) == {pos} \cup PositionSnapshots(tokens)

TradedTokens(e) == e.markets \X e.sides

\* ------------------------------------------------------------------ state
NoPass == [kind |-> None]

Init ==
    /\ mode \in {"paper", "live"}
    /\ env = [markets |-> {1}, sides |-> {"Up"}]
    /\ now = 1
    /\ pc = "idle"
    /\ crashes = 0
    /\ traded_keys = {}
    /\ last_trade_ts = [a \in Assets |-> 0]
    /\ consecutive_losses = [a \in Assets |-> 0]
    /\ orders = EmptyDict
    /\ paper = IF mode = "paper" THEN InitialPaper ELSE EmptyDict
    /\ disk = save(orders, paper)
    /\ ledger = <<>>
    /\ positions = [held |-> {}, value |-> 0]
    /\ live = [cash |-> LiveInitialCash, total_value |-> -1, positions_value |-> -1,
               spent_until |-> 0]
    /\ queue = <<>>
    /\ pass = NoPass
    /\ accepted = [k \in Keys |-> 0]
    /\ emitted = [m \in Markets |-> 0]

\* time passes while the loop sleeps between cycles and between two children
Tick ==
    /\ pc \in {"idle", "child"}
    /\ now < MaxTime
    /\ now' = now + 1
    /\ UNCHANGED <<mode, env, pc, crashes, traded_keys, last_trade_ts, consecutive_losses,
                   orders, paper, disk, ledger, positions, live, queue, pass, accepted, emitted>>

CountFor(intents, m) == Cardinality({i \in DOMAIN intents : intents[i].market = m})

\* one evaluation pass of the cycle: strategy.generate_orders(all_markets) on
\* the market list ms, with the feeds answering offers
GenerateOrdersWith(ms, offers) ==
    /\ pc = "idle"
    /\ LET r == generate_orders(ms, offers, now, traded_keys, last_trade_ts,
                                consecutive_losses)
       IN  /\ queue' = r.orders
           /\ traded_keys' = r.traded
           /\ last_trade_ts' = r.last_ts
           /\ emitted' = [m \in Markets |-> emitted[m] + CountFor(r.orders, m)]
    /\ pc' = "submit"
    /\ UNCHANGED <<mode, env, now, crashes, consecutive_losses, orders, paper, disk, ledger,
                   positions, live, pass, accepted>>

\* ------------------------------------------------------- submit_with_risk
PlannedPatch(order) ==
    [market_slug |-> order.market, outcome |-> order.outcome, token_id |-> order.token,
     asset_symbol |-> order.asset, start_time |-> order.start_time,
     end_time |-> order.end_time, status |-> "planned", order_ids |-> <<>>,
     total_notional |-> 0, total_size |-> 0, fee_paid |-> 0]

SubmitPass(order, children, results) ==
    [kind |-> "submit", order |-> order, key |-> _order_key(order),
     children |-> children, next |-> 1, results |-> results]

\* the head of submit_with_risk: refreshes, cleanup, the two skip checks and
\* the registration of the intent; it returns [] or enters the child loop
SubmitBegin ==
    /\ pc = "submit"
    /\ queue # <<>>
    /\ \E lv \in RefreshedLive(mode, live, now), pos \in RefreshedPositions(positions, TradedTokens(env)) :
          LET order == Head(queue)
              key == _order_key(order)
              cleaned == cleanup(orders, now)
              skip == should_skip(cleaned, key) \/ _position_exposure(pos, order.token) > 0
              registered == IF HasOrder(cleaned, key) THEN cleaned
                            ELSE upsert_order(cleaned, key, PlannedPatch(order), now)
          IN  /\ live' = lv
              /\ positions' = pos
              /\ IF skip
                 THEN /\ orders' = cleaned
                      /\ disk' = disk
                      /\ pass' = SubmitPass(order, <<>>, <<>>)
                      /\ queue' = Tail(queue)
                      /\ pc' = "submit"
                 ELSE /\ orders' = registered
                      /\ disk' = IF HasOrder(cleaned, key) THEN disk ELSE save(registered, paper)
                      /\ pass' = SubmitPass(order, _plan_children(order), <<>>)
                      /\ queue' = queue
                      /\ pc' = "child"
    /\ UNCHANGED <<mode, env, now, crashes, traded_keys, last_trade_ts, consecutive_losses,
                   paper, ledger, accepted, emitted>>

CurrentChild == pass.children[pass.next]

InChildLoop == pc = "child" /\ pass.next <= Len(pass.children)

\* a variant of ChildExpired that never finds the market expired
ChildExpired_Never == FALSE

\* datetime.now(timezone.utc) >= child.end_time
ChildExpired == now >= CurrentChild.end_time

\* a child whose market has expired is passed over (continue)
ChildContinue ==
    /\ InChildLoop
    /\ ChildExpired
    /\ pass' = [pass EXCEPT !.next = @ + 1]
    /\ UNCHANGED <<mode, env, now, pc, crashes, traded_keys, last_trade_ts, consecutive_losses,
                   orders, paper, disk, ledger, positions, live, queue, accepted, emitted>>

\* no headroom, or the clamp drops the child: the loop is left (break)
ChildBreak ==
    /\ InChildLoop
    /\ ~ChildExpired
    /\ ChildNotional(mode, CurrentChild, orders, paper, live, positions) < 0
    /\ pass' = [pass EXCEPT !.next = Len(pass.children) + 1]
    /\ UNCHANGED <<mode, env, now, pc, crashes, traded_keys, last_trade_ts, consecutive_losses,
                   orders, paper, disk, ledger, positions, live, queue, accepted, emitted>>

BuyEntry(key, child, fee, cash_before, cash_after) ==
    [event |-> "buy", order_key |-> key, price |-> child.price, size |-> child.size,
     notional |-> child.notional, fee_paid |-> fee,
     cash_before |-> cash_before, cash_after |-> cash_after]

\* the record's patch after a child: lines 768-810
ChildPatch(st, child, resp, added_fee) ==
    [status |-> IF resp.success THEN "submitted" ELSE "error",
     order_ids |-> IF resp.has_id
                   THEN Append(Field(st, "order_ids", <<>>), Len(Field(st, "order_ids", <<>>)) + 1)
                   ELSE Field(st, "order_ids", <<>>),
     total_notional |-> Field(st, "total_notional", 0) + child.notional,
     total_size |-> Field(st, "total_size", 0) + child.size,
     fee_paid |-> Field(st, "fee_paid", 0) + added_fee,
     last_error |-> IF resp.success THEN "" ELSE resp.message]

LiveAfterBuy(lv, child, t) ==
    LET fee_est == (TradeFeeRate * child.notional) \div 1000
    IN  [lv EXCEPT !.cash = Max(lv.cash - child.notional - fee_est, 0),
                   !.spent_until = t + LiveSpentHold]

\* one child: clamp, executor.submit, the account and ledger updates and the
\* record's upsert; the store is saved by the next step
ChildSubmit(resp) ==
    /\ InChildLoop
    /\ ~ChildExpired
    /\ LET notional == ChildNotional(mode, CurrentChild, orders, paper, live, positions)
           child == ClampedChild(CurrentChild, notional)
           key == pass.key
           st == IF HasOrder(orders, key) THEN orders[key] ELSE EmptyDict
           buys == resp.success /\ mode = "paper"
           bought == IF buys THEN _paper_apply_buy(paper, child.notional) ELSE paper
           added_fee == IF buys THEN (TradeFeeRate * child.notional) \div 1000 ELSE 0
       IN  /\ notional >= 0
           /\ accepted' = IF resp.success
                          THEN [accepted EXCEPT ![key] = @ + child.notional] ELSE accepted
           /\ live' = IF resp.success /\ mode = "live"
                      THEN LiveAfterBuy(live, child, now) ELSE live
           /\ paper' = bought
           /\ ledger' = IF buys
                        THEN Append(ledger, BuyEntry(key, child, added_fee,
                                                     _paper_cash(paper), _paper_cash(bought)))
                        ELSE ledger
           /\ orders' = upsert_order(orders, key, ChildPatch(st, child, resp, added_fee), now)
           /\ pass' = [pass EXCEPT !.results = Append(@, [child |-> pass.next,
                                                          notional |-> child.notional,
                                                          success |-> resp.success])]
    /\ pc' = "child_save"
    /\ UNCHANGED <<mode, env, now, crashes, traded_keys, last_trade_ts, consecutive_losses,
                   disk, positions, queue, emitted>>

\* a variant of ChildSave in which a failed child ends the loop
ChildSave_AbortOnFailure ==
    /\ pc = "child_save"
    /\ disk' = save(orders, paper)
    /\ pass' = [pass EXCEPT !.next = IF pass.results[Len(pass.results)].success
                                     THEN @ + 1 ELSE Len(pass.children) + 1]
    /\ pc' = "child"
    /\ UNCHANGED <<mode, env, now, crashes, traded_keys, last_trade_ts, consecutive_losses,
                   orders, paper, ledger, positions, live, queue, accepted, emitted>>

\* a variant of ChildSave that saves only after a successful child
ChildSave_OnSuccessOnly ==
    /\ pc = "child_save"
    /\ disk' = IF pass.results[Len(pass.results)].success THEN save(orders, paper) ELSE disk
    /\ pass' = [pass EXCEPT !.next = @ + 1]
    /\ pc' = "child"
    /\ UNCHANGED <<mode, env, now, crashes, traded_keys, last_trade_ts, consecutive_losses,
                   orders, paper, ledger, positions, live, queue, accepted, emitted>>

\* store.save() after the child, then the next child
ChildSave ==
    /\ pc = "child_save"
    /\ disk' = save(orders, paper)
    /\ pass' = [pass EXCEPT !.next = @ + 1]
    /\ pc' = "child"
    /\ UNCHANGED <<mode, env, now, crashes, traded_keys, last_trade_ts, consecutive_losses,
                   orders, paper, ledger, positions, live, queue, accepted, emitted>>

\* the end of the child loop: submit_with_risk returns its results
SubmitReturn ==
    /\ pc = "child"
    /\ pass.next > Len(pass.children)
    /\ queue' = Tail(queue)
    /\ pc' = "submit"
    /\ UNCHANGED <<mode, env, now, crashes, traded_keys, last_trade_ts, consecutive_losses,
                   orders, paper, disk, ledger, positions, live, pass, accepted, emitted>>

\* ------------------------------------------------------------- poll_status
\* what get_open_close_change can answer: the realized direction, or an error
Fetches == {"Up", "Down", "Fail"}

\* the head of poll_status: the refreshes, in live mode the activity feed and
\* its save (skipped when the feed request fails), and the snapshot of the
\* order table the loop runs over
PollBegin ==
    /\ pc = "submit"
    /\ queue = <<>>
    /\ \E lv \in RefreshedLive(mode, live, now), pos \in RefreshedPositions(positions, TradedTokens(env)),
          feed_ok \in BOOLEAN :
          /\ live' = lv
          /\ positions' = pos
          /\ disk' = IF mode = "live" /\ feed_ok THEN save(orders, paper) ELSE disk
    /\ pass' = [kind |-> "poll", todo |-> DOMAIN orders]
    /\ pc' = "poll"
    /\ UNCHANGED <<mode, env, now, crashes, traded_keys, last_trade_ts, consecutive_losses,
                   orders, paper, ledger, queue, accepted, emitted>>

SettleEntry(key, st, actual, payout, pnl, cash_after) ==
    [event |-> "settle", order_key |-> key, predicted_outcome |-> st.outcome,
     actual_outcome |-> actual, total_notional |-> Field(st, "total_notional", 0),
     total_size |-> Field(st, "total_size", 0), fee_paid |-> Field(st, "fee_paid", 0),
     payout |-> payout, pnl |-> pnl, win |-> (pnl >= 0 /\ payout > 0),
     cash_after |-> cash_after]

\* a variant of SettlesLocally that settles in every mode
SettlesLocally_Always(md) == TRUE

\* the mode test of poll_status: only paper mode settles a due record against
\* the local account; live mode marks it expired
SettlesLocally(md) == md = "paper"

\* one iteration of the loop over the order table, for the record of key
\* a variant of DetectsFill that never finds a position
DetectsFill_Never(st, pos) == FALSE

\* float(self.positions.token_sizes.get(token_id) or 0.0) > 0.0
DetectsFill(st, pos) == st.token_id \in pos.held

PollOrder(key, fetch, settlement_fee) ==
    /\ pc = "poll"
    /\ key \in pass.todo
    /\ LET st == orders[key]
           held == DetectsFill(st, positions)
           due == now > st.end_time
           actual == IF fetch = "Fail" THEN "Unknown" ELSE fetch
           win == fetch # "Fail" /\ actual = st.outcome
           total_notional == Field(st, "total_notional", 0)
           total_size == Field(st, "total_size", 0)
           fee_paid == Field(st, "fee_paid", 0)
           payout == IF win THEN total_size ELSE 0
           pnl == payout - total_notional - fee_paid - settlement_fee
           settled == _paper_apply_settlement(paper, pnl, payout, win, settlement_fee)
       IN  IF Field(st, "status", "") # "submitted"
           THEN /\ pc' = "poll"
                /\ UNCHANGED <<orders, paper, ledger, consecutive_losses>>
           ELSE IF held
           THEN /\ orders' = SetFields(orders, key, [status |-> "filled", updated_at |-> now])
                /\ pc' = "poll"
                /\ UNCHANGED <<paper, ledger, consecutive_losses>>
           ELSE IF ~due
           THEN /\ pc' = "poll"
                /\ UNCHANGED <<orders, paper, ledger, consecutive_losses>>
           ELSE /\ consecutive_losses' =
                      IF fetch = "Fail" THEN consecutive_losses
                      ELSE update_trade_result(consecutive_losses, st.asset_symbol, win)
                /\ IF SettlesLocally(mode)
                   THEN /\ paper' = settled
                        /\ ledger' = Append(ledger, SettleEntry(key, st, actual, payout, pnl,
                                                                _paper_cash(settled)))
                        /\ orders' = SetFields(orders, key,
                                        [status |-> "settled",
                                         result |-> IF win THEN "win" ELSE "lose"])
                        /\ pc' = "poll_save"
                   ELSE /\ orders' = SetFields(orders, key,
                                        [status |-> "expired", updated_at |-> now])
                        /\ pc' = "poll"
                        /\ UNCHANGED <<paper, ledger>>
    /\ pass' = [pass EXCEPT !.todo = @ \ {key}]
    /\ UNCHANGED <<mode, env, now, crashes, traded_keys, last_trade_ts, disk, positions, live,
                   queue, accepted, emitted>>

\* store.save() right after a paper settlement
PollSave ==
    /\ pc = "poll_save"
    /\ disk' = save(orders, paper)
    /\ pc' = "poll"
    /\ UNCHANGED <<mode, env, now, crashes, traded_keys, last_trade_ts, consecutive_losses,
                   orders, paper, ledger, positions, live, queue, pass, accepted, emitted>>

\* the end of poll_status: the final save; the cycle then sleeps
PollEnd ==
    /\ pc = "poll"
    /\ pass.todo = {}
    /\ disk' = save(orders, paper)
    /\ pc' = "idle"
    /\ UNCHANGED <<mode, env, now, crashes, traded_keys, last_trade_ts, consecutive_losses,
                   orders, paper, ledger, positions, live, queue, pass, accepted, emitted>>

\* ------------------------------------------------------------ crash, restart
\* the process dies at any point and is started again: the strategy and the
\* manager are constructed anew and OrderManager.load reads the state file back
CrashRestart ==
    /\ crashes < MaxCrashes
    /\ crashes' = crashes + 1
    /\ orders' = LoadOrders(disk, now)
    /\ paper' = LoadPaper(disk, mode)
    /\ disk' = save(orders', paper')
    /\ traded_keys' = {}
    /\ last_trade_ts' = [a \in Assets |-> 0]
    /\ consecutive_losses' = [a \in Assets |-> 0]
    /\ positions' = [held |-> {}, value |-> 0]
    /\ live' = [cash |-> LiveInitialCash, total_value |-> -1, positions_value |-> -1,
                spent_until |-> 0]
    /\ queue' = <<>>
    /\ pass' = NoPass
    /\ pc' = "idle"
    /\ emitted' = [m \in Markets |-> 0]
    /\ UNCHANGED <<mode, env, now, ledger, accepted>>

Next ==
    \/ Tick
    \/ \E ms \in MarketLists(env.markets), offers \in [env.markets -> OffersOn(env.sides)] :
          GenerateOrdersWith(ms, offers)
    \/ SubmitBegin
    \/ ChildContinue
    \/ ChildBreak
    \/ \E resp \in Replies(mode) : ChildSubmit(resp)
    \/ ChildSave
    \/ SubmitReturn
    \/ PollBegin
    \/ \E key \in Keys, fetch \in Fetches, fee \in SettlementFees : PollOrder(key, fetch, fee)
    \/ PollSave
    \/ PollEnd
    \/ CrashRestart

Spec == Init /\ [][Next]_vars

\* ================================================================ properties
\* a step of one child through executor.submit and the record's upsert
ChildStep == pc = "child" /\ pc' = "child_save"

LastResult(p) == p.results[Len(p.results)]

SettleEntriesOf(key) == {i \in DOMAIN ledger : ledger[i].event = "settle" /\ ledger[i].order_key = key}

\* the notional generate_orders gives the first intent of a pass
SingleIntentNotional == Min(MaxTotalNotional, Min(MaxNotionalPerMarket, MaxNotionalPerTrade))

\* C1: across a crash inside submit_with_risk and a restart, no accepted child
\* is submitted again: the notional the transport accepted for one key never
\* exceeds the notional of a single intent for that key
C1_NoDuplicateSubmission == \A k \in Keys : accepted[k] <= SingleIntentNotional

C3_OneOrderPerKey ==
    /\ \A m \in Markets : emitted[m] <= 1
    /\ \A i, j \in DOMAIN queue : queue[i].market = queue[j].market => i = j
    /\ \A k \in DOMAIN orders :
          /\ orders[k].market_slug = k[1]
          /\ orders[k].outcome = k[2]
          /\ orders[k].end_time = EndOf(k[1])

\* C3 witness: a later cycle of the same process has evaluated a market again,
\* inside its trading window, whose intent was emitted before and whose record
\* is not yet submitted
C3_Witness ==
    /\ pc = "submit"
    /\ pass.kind = "poll"
    /\ queue = <<>>
    /\ \E m \in Markets :
          /\ emitted[m] = 1
          /\ m \in traded_keys
          /\ EndOf(m) - now >= MinTimeToEnd
          /\ now - last_trade_ts[AssetOf(m)] >= TradeCooldown
          /\ \E k \in DOMAIN orders : k[1] = m /\ StatusOf(orders, k) \in {"planned", "error"}

\* C4: right after each child submission the summed total_notional of the
\* submitted and filled records is within the cap _max_total_exposure_usd
\* computed just before that submission
C4_ExposureCap ==
    [][ChildStep =>
          _open_orders_notional(orders', {"submitted", "filled"})
             <= _max_total_exposure_usd(mode, orders, paper, live, positions)]_vars

\* C5: a child the transport does not accept leaves the record in status error
\* with the failure message, and total_notional, total_size, fee_paid and
\* order_ids as they were before that child
C5_FailedChildKeepsTotals ==
    [][(ChildStep /\ ~LastResult(pass').success)
       => LET key == pass.key
              before == orders[key]
              after == orders'[key]
          IN  /\ after.status = "error"
              /\ after.last_error = "failed"
              /\ after.total_notional = before.total_notional
              /\ after.total_size = before.total_size
              /\ after.fee_paid = before.fee_paid
              /\ after.order_ids = before.order_ids]_vars

\* C6: a failed child does not end the child loop: the pass goes on to the
\* next child with the plan and the results as they were, and the results of a
\* pass name each child at most once, in the order of the plan
C6_FailedChildDoesNotAbort ==
    /\ [][(pc = "child_save" /\ ~LastResult(pass).success /\ crashes' = crashes)
          => /\ pc' = "child"
             /\ pass'.next = pass.next + 1
             /\ pass'.children = pass.children
             /\ pass'.results = pass.results]_vars
    /\ [](pass.kind = "submit" =>
             /\ \A i, j \in DOMAIN pass.results :
                   i < j => pass.results[i].child < pass.results[j].child
             /\ \A i \in DOMAIN pass.results : pass.results[i].child \in DOMAIN pass.children)

\* C6 witness: in one pass the first child failed and the second child was
\* then handed to the transport
C6_Witness ==
    /\ pass.kind = "submit"
    /\ Len(pass.results) = 2
    /\ ~pass.results[1].success
    /\ pass.results[1].child = 1
    /\ pass.results[2].child = 2

\* the stages of generate_orders an open opportunity passes: trading window,
\* cooldown, signal, circuit breaker, entry price and edge
Tradable(m, offer) ==
    /\ EndOf(m) - now >= MinTimeToEnd
    /\ EndOf(m) - now <= MaxTimeToEnd
    /\ now > StartOf(m)
    /\ ~(last_trade_ts[AssetOf(m)] # 0 /\ now - last_trade_ts[AssetOf(m)] < TradeCooldown)
    /\ offer.side # None
    /\ ~_has_too_many_losses(consecutive_losses, AssetOf(m))
    /\ offer.ask <= MaxEntryPrice
    /\ 1000 - offer.ask - FeeEstimate >= MinEdge

\* C7: an order left in status error or planned is retried by a later pass of
\* the same process: while its market is tradable the evaluation re-emits the
\* intent for it
C7_ErrorIsRetried ==
    [][(pc = "idle" /\ pc' = "submit") =>
       \A ms \in MarketLists(env.markets), offers \in [env.markets -> OffersOn(env.sides)] :
          \A m \in env.markets :
             (/\ GenerateOrdersWith(ms, offers)
              /\ Tradable(m, offers[m])
              /\ StatusOf(orders, <<m, offers[m].side>>) \in {"error", "planned"})
             => \E i \in DOMAIN queue' : queue'[i].market = m]_vars

\* C8: when the realized outcome cannot be computed for a submitted record
\* past its expiry, the record stays submitted and nothing is applied to the
\* paper account or the ledger
C8_OutcomeFailureLeavesSubmitted ==
    [][pc = "poll" =>
       \A key \in Keys, fee \in SettlementFees :
          (/\ PollOrder(key, "Fail", fee)
           /\ StatusOf(orders, key) = "submitted"
           /\ orders[key].token_id \notin positions.held
           /\ now > orders[key].end_time)
          => /\ StatusOf(orders', key) = "submitted"
             /\ paper' = paper
             /\ ledger' = ledger]_vars

\* C9: every record in a terminal status (settled or expired) has exactly one
\* settle entry in the ledger, crash and restart included
C9_OneSettlementPerTerminal ==
    \A k \in DOMAIN orders :
       StatusOf(orders, k) \in {"settled", "expired"} => Cardinality(SettleEntriesOf(k)) = 1

\* C10: a settlement pays total_size on a win and 0 otherwise, books
\* pnl = payout - total_notional - fee_paid - settlement fee, raises the paper
\* cash by payout - settlement fee and realized_pnl by pnl, and raises exactly
\* one of the win and loss counters by one
C10_SettlementArithmetic ==
    [][(pc = "poll" /\ pc' = "poll_save") =>
       \A key \in Keys, fetch \in Fetches, fee \in SettlementFees :
          PollOrder(key, fetch, fee)
          => LET st == orders[key]
                 entry == ledger'[Len(ledger')]
                 payout == IF fetch = st.outcome THEN st.total_size ELSE 0
                 pnl == payout - st.total_notional - st.fee_paid - fee
             IN  /\ Len(ledger') = Len(ledger) + 1
                 /\ entry.event = "settle"
                 /\ entry.order_key = key
                 /\ entry.payout = payout
                 /\ entry.pnl = pnl
                 /\ paper'.cash = paper.cash + payout - fee
                 /\ entry.cash_after = paper'.cash
                 /\ paper'.realized_pnl = paper.realized_pnl + pnl
                 /\ \/ paper'.wins = paper.wins + 1 /\ paper'.losses = paper.losses
                    \/ paper'.wins = paper.wins /\ paper'.losses = paper.losses + 1
                 /\ StatusOf(orders', key) = "settled"]_vars

\* C10 witness: a winning order has been settled with a settlement fee, and
\* its payout is in the ledger
C10_Witness ==
    /\ pc = "poll_save"
    /\ ledger # <<>>
    /\ ledger[Len(ledger)].event = "settle"
    /\ ledger[Len(ledger)].payout > 0
    /\ ledger[Len(ledger)].actual_outcome = ledger[Len(ledger)].predicted_outcome
    /\ paper.wins = 1
    /\ paper.fees_paid > 0

\* the polling loop of main never stops by itself (while True): some step of
\* the cycle is always taken in the end
FairSpec == Spec /\ WF_vars(Next)

\* C11: a record poll_status moved to filled is, once its expiry has passed,
\* moved on to settled by a later poll_status: filled is not a status a record
\* keeps forever
C11_FilledIsSettled ==
    \A k \in Keys :
       (StatusOf(orders, k) = "filled" /\ now > EndOf(k[1])) ~> (StatusOf(orders, k) = "settled")

\* submit_with_risk called by any caller, with an intent generate_orders need
\* not have emitted: any market, offer and time
SubmitAny(m, offer) ==
    /\ pc = "idle"
    /\ emitted[m] < MaxCalls
    /\ emitted' = [emitted EXCEPT ![m] = @ + 1]
    /\ queue' = <<Intent(m, offer, SingleIntentNotional)>>
    /\ pc' = "submit"
    /\ UNCHANGED <<mode, env, now, crashes, traded_keys, last_trade_ts, consecutive_losses,
                   orders, paper, disk, ledger, positions, live, pass, accepted>>

CallNext ==
    \/ Tick
    \/ \E m \in env.markets, offer \in [side : env.sides, ask : Asks] : SubmitAny(m, offer)
    \/ SubmitBegin
    \/ ChildContinue
    \/ ChildBreak
    \/ \E resp \in Replies(mode) : ChildSubmit(resp)
    \/ ChildSave
    \/ SubmitReturn
    \/ PollBegin
    \/ \E key \in Keys, fetch \in Fetches, fee \in SettlementFees : PollOrder(key, fetch, fee)
    \/ PollSave
    \/ PollEnd

CallSpec == Init /\ [][CallNext]_vars

Terminal(os, k) == StatusOf(os, k) \in {"settled", "expired"}

\* the status, the cumulative totals and the order ids of a record
Essentials(st) ==
    <<Field(st, "status", ""), Field(st, "total_notional", 0), Field(st, "total_size", 0),
      Field(st, "order_ids", <<>>)>>

\* C12: terminal statuses are absorbing: no submit_with_risk or poll_status
\* step changes the status, totals or order ids of a settled or expired
\* record, and the transport accepts nothing more for its key
C12_TerminalAbsorbing ==
    [][crashes' = crashes =>
          \A k \in DOMAIN orders :
             Terminal(orders, k)
             => /\ accepted'[k] = accepted[k]
                /\ k \in DOMAIN orders' => Essentials(orders'[k]) = Essentials(orders[k])]_vars

\* C12 as it holds: the same, for a terminal record that is within the
\* store's max age (cleanup has not evicted it)
C12_TerminalAbsorbingWithinMaxAge ==
    [][crashes' = crashes =>
          \A k \in DOMAIN orders :
             (Terminal(orders, k) /\ ~Expired(orders[k], now))
             => /\ accepted'[k] = accepted[k]
                /\ k \in DOMAIN orders'
                /\ Essentials(orders'[k]) = Essentials(orders[k])]_vars

\* C12 witness: submit_with_risk has run through its child loop for the key
\* of an expired record, which is still expired
C12_Witness ==
    /\ pc = "child"
    /\ pass.kind = "submit"
    /\ pass.next > Len(pass.children)
    /\ Len(pass.children) > 0
    /\ StatusOf(orders, pass.key) = "expired"

\* ------------------------------------------------- the circuit breaker run
\* A paper run over four markets of one asset, long enough for three
\* settlements of that asset and one more evaluation: discovery lists the
\* markets in a fixed order and time passes between cycles only.
BreakerMarkets == {2, 3, 5, 7}

BreakerList == <<2, 3, 5, 7>>

\* a market either has no quote or one cheap enough to trade
BreakerOffers == {o \in OffersOn({"Up"}) : o.ask <= MaxEntryPrice}

BreakerInit ==
    /\ mode = "paper"
    /\ env = [markets |-> BreakerMarkets, sides |-> {"Up"}]
    /\ now = 1
    /\ pc = "idle"
    /\ crashes = 0
    /\ traded_keys = {}
    /\ last_trade_ts = [a \in Assets |-> 0]
    /\ consecutive_losses = [a \in Assets |-> 0]
    /\ orders = EmptyDict
    /\ paper = InitialPaper
    /\ disk = save(orders, paper)
    /\ ledger = <<>>
    /\ positions = [held |-> {}, value |-> 0]
    /\ live = [cash |-> LiveInitialCash, total_value |-> -1, positions_value |-> -1,
               spent_until |-> 0]
    /\ queue = <<>>
    /\ pass = NoPass
    /\ accepted = [k \in Keys |-> 0]
    /\ emitted = [m \in Markets |-> 0]

BreakerTick ==
    /\ pc = "idle"
    /\ now < MaxBreakerTime
    /\ now' = now + 1
    /\ UNCHANGED <<mode, env, pc, crashes, traded_keys, last_trade_ts, consecutive_losses,
                   orders, paper, disk, ledger, positions, live, queue, pass, accepted, emitted>>

BreakerNext ==
    \/ BreakerTick
    \/ \E offers \in [env.markets -> BreakerOffers] : GenerateOrdersWith(BreakerList, offers)
    \/ SubmitBegin
    \/ ChildBreak
    \/ \E resp \in Replies(mode) : ChildSubmit(resp)
    \/ ChildSave
    \/ SubmitReturn
    \/ PollBegin
    \/ \E key \in Keys, fetch \in Fetches : PollOrder(key, fetch, 0)
    \/ PollSave
    \/ PollEnd

BreakerSpec == BreakerInit /\ [][BreakerNext]_vars

\* the settlements of an asset's records, in the order the ledger has them
SettlementsOf(a) ==
    SelectSeq(ledger, LAMBDA e : e.event = "settle" /\ AssetOf(e.order_key[1]) = a)

LostEntry(e) == e.actual_outcome # e.predicted_outcome

\* the last three settlements of the asset were losses
ThreeLossesInARow(a) ==
    LET h == SettlementsOf(a)
    IN  /\ Len(h) >= MaxConsecutiveLosses
        /\ \A i \in (Len(h) - MaxConsecutiveLosses + 1)..Len(h) : LostEntry(h[i])

\* C13: after three consecutive losing settlements of an asset,
\* generate_orders emits no intent for that asset until a win is recorded
C13_CircuitBreaker ==
    [][(pc = "idle" /\ pc' = "submit") =>
          \A a \in Assets :
             ThreeLossesInARow(a) => \A i \in DOMAIN queue' : queue'[i].asset # a]_vars

\* ------------------------------------------------------- _plan_children
\* _plan_children applied to an intent and a max child notional drawn from
\* bounded sets (0 stands for a max child notional that is not positive).
SplitInit ==
    /\ mode \in {"paper", "live"}
    /\ env = [markets |-> Markets, sides |-> Outcomes]
    /\ now = 1
    /\ pc = "plan"
    /\ crashes = 0
    /\ traded_keys = {}
    /\ last_trade_ts = [a \in Assets |-> 0]
    /\ consecutive_losses = [a \in Assets |-> 0]
    /\ orders = EmptyDict
    /\ paper = InitialPaper
    /\ disk = save(orders, paper)
    /\ ledger = <<>>
    /\ positions = [held |-> {}, value |-> 0]
    /\ live = [cash |-> LiveInitialCash, total_value |-> -1, positions_value |-> -1,
               spent_until |-> 0]
    /\ queue = <<>>
    /\ \E m \in env.markets, offer \in [side : env.sides, ask : Asks],
          n \in 1..MaxSplitNotional, c \in 0..MaxSplitChild :
          pass = [kind |-> "plan", order |-> Intent(m, offer, n), max_child |-> c,
                  children |-> <<>>]
    /\ accepted = [k \in Keys |-> 0]
    /\ emitted = [m \in Markets |-> 0]

PlanChildrenCall ==
    /\ pc = "plan"
    /\ pass' = [pass EXCEPT !.children = PlanChildren(pass.order, pass.max_child)]
    /\ pc' = "planned"
    /\ UNCHANGED <<mode, env, now, crashes, traded_keys, last_trade_ts, consecutive_losses,
                   orders, paper, disk, ledger, positions, live, queue, accepted, emitted>>

SplitNext == PlanChildrenCall

SplitSpec == SplitInit /\ [][SplitNext]_vars

RECURSIVE SumOfNotionals(_)
SumOfNotionals(children) ==
    IF children = <<>> THEN 0
    ELSE Head(children).notional + SumOfNotionals(Tail(children))

\* C14: for a max child notional C > 0, the children of _plan_children sum to
\* the intent's notional, each child's notional is positive and at most C,
\* every child but the last has exactly C, and every child keeps the intent's
\* price, market, outcome, token and expiry
C14_SplitCorrect ==
    (pc = "planned" /\ pass.max_child > 0) =>
        LET children == pass.children
            order == pass.order
            c == pass.max_child
        IN  /\ SumOfNotionals(children) = order.notional
            /\ \A i \in DOMAIN children :
                  /\ children[i].notional > 0
                  /\ children[i].notional <= c
                  /\ i < Len(children) => children[i].notional = c
                  /\ children[i].price = order.price
                  /\ children[i].market = order.market
                  /\ children[i].asset = order.asset
                  /\ children[i].outcome = order.outcome
                  /\ children[i].token = order.token
                  /\ children[i].start_time = order.start_time
                  /\ children[i].end_time = order.end_time

\* an intent split into three or more children, the last one the remainder
C14_Witness ==
    /\ pc = "planned"
    /\ pass.max_child > 0
    /\ Len(pass.children) >= 3
    /\ pass.children[Len(pass.children)].notional < pass.max_child

\* ------------------------------------------------------- the store alone
\* JsonStateStore driven one call at a time: upsert_order with the patch
\* shapes the manager passes, cleanup, save step by step, the process dying at
\* any point and the next process loading the state file.
StoreKeys == {<<1, "Up">>, <<2, "Up">>}

StorePatches ==
    {[status |-> "planned", market_slug |-> 1, total_notional |-> 0],
     [status |-> "error", total_notional |-> 2, last_error |-> "failed"]}

\* where the store is: the temporary file, the state file before the save
\* under way and the state that save writes, the key and patch of the last
\* upsert, whether that upsert repeated the one before it, the keys the last
\* cleanup removed, and the number of upserts so far
StorePass(kind, tmp, old, new, calls) ==
    [kind |-> kind, tmp |-> tmp, old |-> old, new |-> new, last |-> <<>>,
     repeat |-> FALSE, evicted |-> {}, calls |-> calls]

StoreInit ==
    /\ mode = "paper"
    /\ env = [markets |-> {1, 2}, sides |-> {"Up"}]
    /\ now = 1
    /\ pc = "ready"
    /\ crashes = 0
    /\ traded_keys = {}
    /\ last_trade_ts = [a \in Assets |-> 0]
    /\ consecutive_losses = [a \in Assets |-> 0]
    /\ orders = EmptyDict
    /\ paper = InitialPaper
    /\ disk = save(orders, paper)
    /\ ledger = <<>>
    /\ positions = [held |-> {}, value |-> 0]
    /\ live = [cash |-> LiveInitialCash, total_value |-> -1, positions_value |-> -1,
               spent_until |-> 0]
    /\ queue = <<>>
    /\ pass = StorePass("new", Absent, disk, disk, 0)
    /\ accepted = [k \in Keys |-> 0]
    /\ emitted = [m \in Markets |-> 0]

StoreFiles == [path |-> disk, tmp |-> pass.tmp]

StoreTick ==
    /\ pc = "ready"
    /\ now < MaxStoreTime
    /\ now' = now + 1
    /\ UNCHANGED <<mode, env, pc, crashes, traded_keys, last_trade_ts, consecutive_losses,
                   orders, paper, disk, ledger, positions, live, queue, pass, accepted, emitted>>

UpsertOrder(key, patch) ==
    /\ pc = "ready"
    /\ pass.calls < MaxUpserts
    /\ orders' = upsert_order(orders, key, patch, now)
    /\ pass' = [pass EXCEPT !.kind = "upsert", !.last = <<key, patch>>,
                             !.repeat = (pass.last = <<key, patch>>), !.calls = @ + 1]
    /\ UNCHANGED <<mode, env, now, pc, crashes, traded_keys, last_trade_ts,
                   consecutive_losses, paper, disk, ledger, positions, live, queue,
                   accepted, emitted>>

Cleanup ==
    /\ pc = "ready"
    /\ orders' = cleanup(orders, now)
    /\ pass' = [pass EXCEPT !.kind = "cleanup", !.last = <<>>, !.repeat = FALSE,
                             !.evicted = DOMAIN orders \ DOMAIN orders']
    /\ UNCHANGED <<mode, env, now, pc, crashes, traded_keys, last_trade_ts,
                   consecutive_losses, paper, disk, ledger, positions, live, queue,
                   accepted, emitted>>

\* open(tmp, "w")
SaveOpen ==
    /\ pc = "ready"
    /\ LET files == OpenForWrite(StoreFiles, TmpName)
       IN  /\ disk' = files.path
           /\ pass' = [pass EXCEPT !.kind = "save", !.tmp = files.tmp, !.old = disk,
                                    !.new = save(orders, paper)]
    /\ pc' = "save_open"
    /\ UNCHANGED <<mode, env, now, crashes, traded_keys, last_trade_ts, consecutive_losses,
                   orders, paper, ledger, positions, live, queue, accepted, emitted>>

\* json.dump and the close of the file
SaveDump ==
    /\ pc = "save_open"
    /\ LET files == DumpTo(StoreFiles, TmpName, save(orders, paper))
       IN  /\ disk' = files.path
           /\ pass' = [pass EXCEPT !.tmp = files.tmp]
    /\ pc' = "save_written"
    /\ UNCHANGED <<mode, env, now, crashes, traded_keys, last_trade_ts, consecutive_losses,
                   orders, paper, ledger, positions, live, queue, accepted, emitted>>

\* os.replace(tmp, path)
SaveReplace ==
    /\ pc = "save_written"
    /\ LET files == Replace(StoreFiles, TmpName, "path")
       IN  /\ disk' = files.path
           /\ pass' = [pass EXCEPT !.tmp = files.tmp]
    /\ pc' = "ready"
    /\ UNCHANGED <<mode, env, now, crashes, traded_keys, last_trade_ts, consecutive_losses,
                   orders, paper, ledger, positions, live, queue, accepted, emitted>>

\* the process dies: the memory is gone, the files stay as they are
StoreCrash ==
    /\ pc \in {"ready", "save_open", "save_written"}
    /\ crashes < MaxStoreCrashes
    /\ crashes' = crashes + 1
    /\ orders' = EmptyDict
    /\ pass' = IF pc = "ready" THEN StorePass("down", pass.tmp, disk, disk, pass.calls)
               ELSE StorePass("down", pass.tmp, pass.old, pass.new, pass.calls)
    /\ pc' = "down"
    /\ UNCHANGED <<mode, env, now, traded_keys, last_trade_ts, consecutive_losses,
                   paper, disk, ledger, positions, live, queue, accepted, emitted>>

\* JsonStateStore.load in the next process: json.load raises on a partial
\* document and the process does not start
StoreLoad ==
    /\ pc = "down"
    /\ IF disk = Torn
       THEN /\ pc' = "failed"
            /\ UNCHANGED <<orders, pass>>
       ELSE /\ orders' = disk.orders
            /\ pass' = [pass EXCEPT !.kind = "loaded"]
            /\ pc' = "ready"
    /\ UNCHANGED <<mode, env, now, crashes, traded_keys, last_trade_ts, consecutive_losses,
                   paper, disk, ledger, positions, live, queue, accepted, emitted>>

StoreNext ==
    \/ StoreTick
    \/ \E key \in StoreKeys, patch \in StorePatches : UpsertOrder(key, patch)
    \/ Cleanup
    \/ SaveOpen
    \/ SaveDump
    \/ SaveReplace
    \/ StoreCrash
    \/ StoreLoad

StoreSpec == StoreInit /\ [][StoreNext]_vars

\* C15: whenever the process dies during save, the state file holds the
\* complete previous state or the complete new state, never a partial one,
\* and the load that follows returns the state the file holds
C15_AtomicPersistence ==
    /\ disk # Torn
    /\ pc # "failed"
    /\ pc \in {"save_open", "save_written", "down"} => disk \in {pass.old, pass.new}
    /\ pass.kind = "loaded" => (orders = disk.orders /\ disk \in {pass.old, pass.new})

\* the process died between the write of the temporary file and the rename
\* while the memory differed from the file, and the next process has loaded
C15_Witness ==
    /\ pass.kind = "loaded"
    /\ pass.old # pass.new
    /\ pass.tmp = pass.new
    /\ disk = pass.old

\* C16: cleanup removes every record whose updated_at is older than max age,
\* whatever its status, and keeps every other record with all its fields
C16_Cleanup ==
    [][(pc = "ready" /\ Cleanup) =>
          /\ DOMAIN orders' \subseteq DOMAIN orders
          /\ \A k \in DOMAIN orders :
                IF now - Field(orders[k], "updated_at", 0) > MaxStateAge
                THEN k \notin DOMAIN orders'
                ELSE k \in DOMAIN orders' /\ orders'[k] = orders[k]]_vars

\* a cleanup has removed a record and kept one that is exactly max age old
C16_Witness ==
    /\ pass.kind = "cleanup"
    /\ pass.evicted # {}
    /\ \E k \in DOMAIN orders : now - orders[k].updated_at = MaxStateAge

\* C17: upsert_order creates the record or merges the patch into it: the
\* patched fields have the patch's values, the record's other fields are
\* unchanged, updated_at is the current time, other keys are untouched
C17_UpsertFrame ==
    [][pc = "ready" =>
          \A key \in StoreKeys, patch \in StorePatches :
             UpsertOrder(key, patch) =>
                /\ key \in DOMAIN orders'
                /\ \A f \in DOMAIN patch :
                      f \in DOMAIN orders'[key] /\ orders'[key][f] = patch[f]
                /\ key \in DOMAIN orders =>
                      \A f \in DOMAIN orders[key] \ (DOMAIN patch \cup {"updated_at"}) :
                         f \in DOMAIN orders'[key] /\ orders'[key][f] = orders[key][f]
                /\ orders'[key].updated_at = now
                /\ DOMAIN orders' = DOMAIN orders \cup {key}
                /\ \A other \in DOMAIN orders \ {key} : orders'[other] = orders[other]]_vars

\* an upsert has merged, at a later moment, into a record that had a field
\* the patch does not name
C17_Witness ==
    /\ pass.kind = "upsert"
    /\ now > 1
    /\ orders[pass.last[1]].updated_at = now
    /\ DOMAIN orders[pass.last[1]] \ (DOMAIN pass.last[2] \cup {"updated_at"}) # {}

Strip(st) == [f \in DOMAIN st \ {"updated_at"} |-> st[f]]

\* C18: an upsert that repeats the previous upsert's key and patch leaves the
\* record, apart from updated_at, as the first application left it
C18_UpsertIdempotent ==
    [][pc = "ready" =>
          \A key \in StoreKeys, patch \in StorePatches :
             (pass.last = <<key, patch>> /\ UpsertOrder(key, patch)) =>
                /\ key \in DOMAIN orders
                /\ Strip(orders'[key]) = Strip(orders[key])]_vars

\* the same patch has been applied to the same key twice in a row, the second
\* time at a later moment
C18_Witness ==
    /\ pass.kind = "upsert"
    /\ pass.repeat
    /\ now > 1
    /\ orders[pass.last[1]].updated_at = now

\* the notional of the child the step has passed to the transport
SubmittedNotional == pass'.results[Len(pass'.results)].notional

\* the per-trade cap of the live tiers, from the cash before the submission
LiveTierCap ==
    IF live.cash < LiveRollThreshold THEN LiveMaxNotionalBelowThreshold
    ELSE (live.cash * LiveMaxFractionPct) \div 100

\* C20: in live mode every child passed to the transport has a notional of at
\* most cash / (1 + fee rate), at most the tier cap and at most the remaining
\* exposure headroom; nothing is submitted when the live cash is 0
C20_LiveCapitalClamp ==
    [][(pc = "child" /\ pc' = "child_save" /\ mode = "live") =>
          /\ SubmittedNotional <= (live.cash * 1000) \div (1000 + TradeFeeRate)
          /\ SubmittedNotional <= LiveTierCap
          /\ SubmittedNotional <=
                _remaining_total_exposure_usd(mode, orders, paper, live, positions)
          /\ live.cash > 0]_vars

\* ------------------------------------------------------- the child clamp
\* the clamp of the child loop applied to a child, a cash balance, an exposure
\* headroom and a configured minimum notional drawn from bounded sets
ClampInit ==
    /\ mode \in {"paper", "live"}
    /\ env = [markets |-> {1}, sides |-> {"Up"}]
    /\ now = 1
    /\ pc = "clamp"
    /\ crashes = 0
    /\ traded_keys = {}
    /\ last_trade_ts = [a \in Assets |-> 0]
    /\ consecutive_losses = [a \in Assets |-> 0]
    /\ orders = EmptyDict
    /\ \E cash \in 0..MaxClampCash :
          /\ paper = [InitialPaper EXCEPT !.cash = cash]
          /\ live = [cash |-> cash, total_value |-> -1, positions_value |-> -1,
                     spent_until |-> 0]
    /\ disk = save(orders, paper)
    /\ ledger = <<>>
    /\ positions = [held |-> {}, value |-> 0]
    /\ queue = <<>>
    /\ \E n \in 1..MaxClampNotional, headroom \in 0..MaxClampNotional,
          minimum \in 1..MaxClampMinimum, ask \in Asks :
          pass = [kind |-> "clamp",
                  child |-> Intent(1, [side |-> "Up", ask |-> ask], n),
                  exposure_remaining |-> headroom, min_notional |-> minimum, result |-> -1,
                  submitted |-> <<>>]
    /\ accepted = [k \in Keys |-> 0]
    /\ emitted = [m \in Markets |-> 0]

\* the clamp decides: -1 for a break, otherwise the notional the child is
\* passed to the transport with, and the child as the transport receives it
ClampCall ==
    /\ pc = "clamp"
    /\ LET notional == ClampWith(mode, pass.child, orders, paper, live,
                                 pass.exposure_remaining, pass.min_notional)
       IN  pass' = [pass EXCEPT !.result = notional,
                                !.submitted = IF notional >= 0
                                              THEN <<ClampedChild(pass.child, notional)>>
                                              ELSE <<>>]
    /\ pc' = "clamped"
    /\ UNCHANGED <<mode, env, now, crashes, traded_keys, last_trade_ts, consecutive_losses,
                   orders, paper, disk, ledger, positions, live, queue, accepted, emitted>>

ClampNext == ClampCall

ClampSpec == ClampInit /\ [][ClampNext]_vars

\* C19: in paper and in live mode, no child whose notional after the clamp is
\* below the mode's configured minimum notional is passed to the transport
C19_NoDust ==
    (pc = "clamped" /\ pass.result >= 0) => pass.result >= pass.min_notional

\* paper cash / (1 + fee rate)
PaperSpendable == (_paper_cash(paper) * 1000) \div (1000 + FeeEstimate)

\* C21: in paper mode a child passed to the transport has a notional of at
\* most the planned child notional, the spendable cash, the spendable cash
\* times the fraction per trade and the exposure headroom; its size is its
\* notional over its price, and its price is the intent's
C21_PaperCapitalClamp ==
    (pc = "clamped" /\ mode = "paper") =>
        \A i \in DOMAIN pass.submitted :
           LET child == pass.submitted[i]
           IN  /\ child.notional <= pass.child.notional
               /\ child.notional <= PaperSpendable
               /\ child.notional <= (PaperSpendable * PaperMaxFractionPct) \div 100
               /\ child.notional <= pass.exposure_remaining
               /\ child.size = (child.notional * 1000) \div child.price
               /\ child.price = pass.child.price

\* a paper child went to the transport cut down to the fraction of the
\* spendable cash, below the planned notional and below the headroom
C21_Witness ==
    /\ pc = "clamped"
    /\ mode = "paper"
    /\ Len(pass.submitted) = 1
    /\ pass.submitted[1].notional < pass.child.notional
    /\ pass.submitted[1].notional < pass.exposure_remaining
    /\ pass.submitted[1].notional = (PaperSpendable * PaperMaxFractionPct) \div 100

\* submit_with_risk is entered for an intent whose token the position
\* snapshot, as refreshed at the head of the call, shows as held
EntersWithPosition ==
    /\ pc = "submit"
    /\ queue # <<>>
    /\ pc' \in {"submit", "child"}
    /\ Head(queue).token \in positions'.held

\* C22: with a held position for the intent's token, submit_with_risk submits
\* nothing, creates no record for the key and leaves the store and the paper
\* and live cash unchanged
C22_PositionSkipFrame ==
    [][EntersWithPosition =>
          /\ pc' = "submit"
          /\ queue' = Tail(queue)
          /\ accepted' = accepted
          /\ orders' = orders
          /\ disk' = disk
          /\ paper' = paper
          /\ live'.cash = live.cash]_vars

\* C22, amended: with a held position for the intent's token, submit_with_risk
\* submits nothing, creates and alters no record, removes only records older
\* than max age, leaves the state file and the paper account unchanged, and
\* the live cash changes only to what the balance endpoint reports
C22_PositionSkipFrameAfterRefresh ==
    [][EntersWithPosition =>
          /\ pc' = "submit"
          /\ queue' = Tail(queue)
          /\ accepted' = accepted
          /\ \A k \in DOMAIN orders' : k \in DOMAIN orders /\ orders'[k] = orders[k]
          /\ \A k \in DOMAIN orders \ DOMAIN orders' :
                now - Field(orders[k], "updated_at", 0) > MaxStateAge
          /\ disk' = disk
          /\ paper' = paper
          /\ ledger' = ledger
          /\ live'.cash = live.cash \/ (mode = "live" /\ live'.cash \in LiveCashValues)]_vars

\* a call has returned because of the held position alone: the key has no
\* record, nothing was planned, and the state file still holds the record
\* that the call's cleanup removed from the memory
C22_Witness ==
    /\ pc = "submit"
    /\ pass.kind = "submit"
    /\ pass.children = <<>>
    /\ pass.order.token \in positions.held
    /\ pass.key \notin DOMAIN orders
    /\ pass.key \in DOMAIN disk.orders

\* the record of the key is in the store when the registration step runs,
\* that is, after the cleanup at the head of the call
RecordAtRegistration(key) ==
    key \in DOMAIN orders /\ now - Field(orders[key], "updated_at", 0) <= MaxStateAge

\* C23: an intent that passes the skip checks and has no record gets a record
\* with status planned and zero totals, persisted to the state file, before
\* its first child is passed to the transport; a record that exists at the
\* registration is neither re-created nor reset
C23_RegistrationPrecedesSubmission ==
    [][/\ (pc = "submit" /\ pc' = "child") =>
            LET key == pass'.key
            IN  IF RecordAtRegistration(key)
                THEN orders'[key] = orders[key]
                ELSE /\ key \in DOMAIN orders'
                     /\ orders'[key].status = "planned"
                     /\ orders'[key].total_notional = 0
                     /\ orders'[key].total_size = 0
                     /\ orders'[key].fee_paid = 0
                     /\ orders'[key].order_ids = <<>>
                     /\ accepted'[key] = accepted[key]
                     /\ key \in DOMAIN disk'.orders
                     /\ disk'.orders[key] = orders'[key]
       /\ (pc = "child" /\ pc' = "child_save") => pass.key \in DOMAIN disk.orders]_vars

\* a new record has just been registered and saved, no child submitted yet
C23_Witness ==
    /\ pc = "child"
    /\ pass.kind = "submit"
    /\ pass.next = 1
    /\ pass.results = <<>>
    /\ Len(pass.children) > 0
    /\ StatusOf(orders, pass.key) = "planned"
    /\ pass.key \in DOMAIN disk.orders
    /\ disk.orders[pass.key] = orders[pass.key]
    /\ orders[pass.key].updated_at = now

\* C24: once a child has been passed to the transport, whether it succeeded
\* or failed, the state file equals the in-memory state (the record's status
\* and totals, the paper account) before the next child is submitted
C24_PersistedAfterEveryChild ==
    (pc = "child" /\ pass.kind = "submit" /\ Len(pass.results) > 0) =>
        /\ disk.orders = orders
        /\ disk.paper = paper
        /\ pass.key \in DOMAIN disk.orders

\* a failed child has been saved with status error and its totals, and the
\* next child of the intent is still to be submitted
C24_Witness ==
    /\ pc = "child"
    /\ pass.kind = "submit"
    /\ Len(pass.results) > 0
    /\ pass.next <= Len(pass.children)
    /\ ~pass.results[Len(pass.results)].success
    /\ StatusOf(disk.orders, pass.key) = "error"
    /\ disk.orders[pass.key].total_notional > 0

\* the record of key is submitted, its token is not in the position snapshot
\* and its market has expired
DueForSettlement(key) ==
    /\ key \in DOMAIN orders
    /\ StatusOf(orders, key) = "submitted"
    /\ orders[key].token_id \notin positions.held
    /\ now > orders[key].end_time

\* C25: when poll_status reaches a submitted record without a position, past
\* its expiry, and the outcome is computed, paper mode settles it with result
\* win or lose, and live mode marks it expired, leaving the paper account, the
\* live balance and the paper ledger as they were; no paper record is expired
C25_TerminalStatusByMode ==
    [][pc = "poll" =>
          /\ \A key \in Keys, fetch \in {"Up", "Down"}, fee \in SettlementFees :
                (DueForSettlement(key) /\ PollOrder(key, fetch, fee)) =>
                   IF mode = "paper"
                   THEN /\ StatusOf(orders', key) = "settled"
                        /\ orders'[key].result = IF fetch = orders[key].outcome
                                                 THEN "win" ELSE "lose"
                   ELSE /\ StatusOf(orders', key) = "expired"
                        /\ paper' = paper
                        /\ live' = live
                        /\ ledger' = ledger
          /\ mode = "paper" => \A k \in DOMAIN orders' : StatusOf(orders', k) # "expired"]_vars

\* a live record has been marked expired by a poll while the paper ledger has
\* no settle entry
C25_Witness ==
    /\ mode = "live"
    /\ pc = "poll"
    /\ \E k \in DOMAIN orders :
          /\ StatusOf(orders, k) = "expired"
          /\ orders[k].total_notional > 0
          /\ orders[k].updated_at = now
    /\ \A i \in DOMAIN ledger : ledger[i].event # "settle"

\* ------------------------------------------------------ the strategy alone
\* UpDownLagArbStrategy driven pass by pass over four markets of three
\* assets, three of them tradable at the same time; the intents of a pass are
\* handed to the caller, which here only notes the asset and the time of each
StrategyMarkets == {1, 2, 3, 8}

StrategyInit ==
    /\ mode = "paper"
    /\ env = [markets |-> StrategyMarkets, sides |-> {"Up"}]
    /\ now = 1
    /\ pc = "idle"
    /\ crashes = 0
    /\ traded_keys = {}
    /\ last_trade_ts = [a \in Assets |-> 0]
    /\ consecutive_losses = [a \in Assets |-> 0]
    /\ orders = EmptyDict
    /\ paper = InitialPaper
    /\ disk = save(orders, paper)
    /\ ledger = <<>>
    /\ positions = [held |-> {}, value |-> 0]
    /\ live = [cash |-> LiveInitialCash, total_value |-> -1, positions_value |-> -1,
               spent_until |-> 0]
    /\ queue = <<>>
    /\ pass = [kind |-> "strategy", log |-> <<>>]
    /\ accepted = [k \in Keys |-> 0]
    /\ emitted = [m \in Markets |-> 0]

RECURSIVE EmissionsOf(_, _)
EmissionsOf(intents, t) ==
    IF intents = <<>> THEN <<>>
    ELSE <<[asset |-> Head(intents).asset, time |-> t]>> \o EmissionsOf(Tail(intents), t)

\* generate_orders returns its list to the caller
StrategyReturn ==
    /\ pc = "submit"
    /\ pass' = [pass EXCEPT !.log = @ \o EmissionsOf(queue, now)]
    /\ queue' = <<>>
    /\ pc' = "idle"
    /\ UNCHANGED <<mode, env, now, crashes, traded_keys, last_trade_ts, consecutive_losses,
                   orders, paper, disk, ledger, positions, live, accepted, emitted>>

StrategyNext ==
    \/ Tick
    \/ \E ms \in MarketLists(env.markets), offers \in [env.markets -> BreakerOffers] :
          GenerateOrdersWith(ms, offers)
    \/ StrategyReturn

StrategySpec == StrategyInit /\ [][StrategyNext]_vars

\* C26: the intents of one generate_orders pass sum to at most
\* max_total_notional, each is at most the per-market and the per-trade
\* maximum, and none is emitted once the budget is used up
C26_EvaluationBudget ==
    pc = "submit" =>
        /\ SumOfNotionals(queue) <= MaxTotalNotional
        /\ \A i \in DOMAIN queue :
              /\ queue[i].notional > 0
              /\ queue[i].notional <= MaxNotionalPerMarket
              /\ queue[i].notional <= MaxNotionalPerTrade
              /\ SumOfNotionals(SubSeq(queue, 1, i - 1)) < MaxTotalNotional

\* a pass has used the whole budget with two intents while a third market of
\* another asset was tradable and was not emitted
C26_Witness ==
    /\ pc = "submit"
    /\ Len(queue) = 2
    /\ SumOfNotionals(queue) = MaxTotalNotional
    /\ \E m \in env.markets :
          /\ m \notin traded_keys
          /\ last_trade_ts[AssetOf(m)] = 0
          /\ EndOf(m) - now >= MinTimeToEnd
          /\ EndOf(m) - now <= MaxTimeToEnd

\* C27: two intents for the same asset are never emitted less than the
\* cooldown apart, across passes and within one pass
C27_Cooldown ==
    /\ \A i, j \in DOMAIN pass.log :
          (i < j /\ pass.log[i].asset = pass.log[j].asset) =>
              pass.log[j].time - pass.log[i].time >= TradeCooldown
    /\ pc = "submit" =>
          /\ \A i, j \in DOMAIN queue : queue[i].asset = queue[j].asset => i = j
          /\ \A i \in DOMAIN queue, j \in DOMAIN pass.log :
                pass.log[j].asset = queue[i].asset => now - pass.log[j].time >= TradeCooldown

\* an asset has been emitted twice, for two markets, exactly the cooldown
\* apart, the second market having been passed over in the first pass
C27_Witness ==
    \E i, j \in DOMAIN pass.log :
       /\ i < j
       /\ pass.log[i].asset = pass.log[j].asset
       /\ pass.log[j].time - pass.log[i].time = TradeCooldown


(***************************************************************************)
(* HttpClient.get_json (src/http_client.py).  One action per iteration of *)
(* the retry loop.  Delays are counted in quarter seconds, so the sleep   *)
(* of 0.25 * 2**attempt seconds is 2^attempt units.  A response is what   *)
(* urlopen and json.loads produce in one attempt: a decodable body, an    *)
(* empty body, an HTTPError with its code, a timeout, or a body that      *)
(* json.loads rejects.                                                     *)
(***************************************************************************)
MaxRetries == 2

HttpCodes == {400, 403, 404, 422, 429, 500, 501, 503}

HttpResponses ==
  {[kind |-> k, code |-> 0] : k \in {"data", "empty", "timeout", "garbled"}}
    \cup {[kind |-> "http", code |-> c] : c \in HttpCodes}

NoDataCodes == {404, 422}

RetriedCodes == {403, 429, 500, 502, 503, 504}

Backoff(attempt) == 2 ^ attempt

\* The retry test of the claim's wording: 429 and the whole 5xx class.
Retryable_TransientOnly(resp) ==
  \/ resp.kind \in {"timeout", "garbled"}
  \/ resp.kind = "http" /\ (resp.code = 429 \/ resp.code \in 500..599)

\* The failures the two except clauses retry while attempt < retries.
Retryable(resp) ==
  \/ resp.kind \in {"timeout", "garbled"}
  \/ resp.kind = "http" /\ resp.code \in RetriedCodes

\* One iteration of the loop: the outcome, and the delay slept if the
\* iteration ends in continue.
get_json_attempt(resp, attempt, retries) ==
  IF resp.kind = "data" THEN [outcome |-> "data", sleep |-> 0]
  ELSE IF resp.kind = "empty" THEN [outcome |-> "none", sleep |-> 0]
  ELSE IF resp.kind = "http" /\ resp.code \in NoDataCodes
    THEN [outcome |-> "none", sleep |-> 0]
  ELSE IF Retryable(resp) /\ attempt < retries
    THEN [outcome |-> "running", sleep |-> Backoff(attempt)]
  ELSE [outcome |-> "raised", sleep |-> 0]

HttpInit ==
    /\ mode = "paper"
    /\ env = [markets |-> {1}, sides |-> {"Up"}]
    /\ now = 1
    /\ pc = "http"
    /\ crashes = 0
    /\ traded_keys = {}
    /\ last_trade_ts = [a \in Assets |-> 0]
    /\ consecutive_losses = [a \in Assets |-> 0]
    /\ orders = EmptyDict
    /\ paper = InitialPaper
    /\ disk = save(orders, paper)
    /\ ledger = <<>>
    /\ positions = [held |-> {}, value |-> 0]
    /\ live = [cash |-> LiveInitialCash, total_value |-> -1, positions_value |-> -1,
               spent_until |-> 0]
    /\ queue = <<>>
    /\ \E r \in 0..MaxRetries :
         pass = [kind |-> "http", retries |-> r, attempt |-> 0, seen |-> <<>>,
                 slept |-> <<>>, outcome |-> "running"]
    /\ accepted = [k \in Keys |-> 0]
    /\ emitted = [m \in Markets |-> 0]

HttpAttempt ==
  /\ pc = "http"
  /\ pass.outcome = "running"
  /\ pass.attempt <= pass.retries
  /\ \E resp \in HttpResponses :
       LET r == get_json_attempt(resp, pass.attempt, pass.retries)
       IN  /\ pass' = [pass EXCEPT
                 !.attempt = @ + 1,
                 !.seen = Append(@, resp),
                 !.slept = IF r.outcome = "running" THEN Append(@, r.sleep) ELSE @,
                 !.outcome = r.outcome]
           /\ pc' = IF r.outcome = "running" THEN "http" ELSE "done"
  /\ UNCHANGED <<mode, env, now, crashes, traded_keys, last_trade_ts,
                 consecutive_losses, orders, paper, disk, ledger, positions,
                 live, queue, accepted, emitted>>

HttpNext == HttpAttempt

HttpSpec == HttpInit /\ [][HttpNext]_vars

HttpFinished == pass.kind = "http" /\ pass.outcome # "running"

HttpLast == pass.seen[Len(pass.seen)]

\* The attempts that ended in continue: all of them while the call runs,
\* all but the last once it has returned or raised.
HttpRetried ==
  IF HttpFinished THEN 1..(Len(pass.seen) - 1) ELSE 1..Len(pass.seen)

\* What every reading of the claim shares: the attempt bound, the no-data
\* codes, the delays, and the error raised being the last one seen.
HttpBounded ==
  /\ Len(pass.seen) <= pass.retries + 1
  /\ Len(pass.seen) = pass.retries + 1 => HttpFinished
  /\ Len(pass.slept) = Cardinality(HttpRetried)
  /\ \A i \in DOMAIN pass.slept : pass.slept[i] = Backoff(i - 1)
  /\ \A i \in HttpRetried :
       ~(pass.seen[i].kind = "http" /\ pass.seen[i].code \in NoDataCodes)
  /\ HttpFinished /\ HttpLast.kind = "http" /\ HttpLast.code \in NoDataCodes
       => pass.outcome = "none"
  /\ HttpFinished /\ HttpLast.kind = "data" => pass.outcome = "data"

ListedFailure(resp) ==
    \/ resp.kind \in {"timeout", "garbled"}
    \/ resp.kind = "http" /\ resp.code \in {403, 429, 500, 502, 503, 504}

NotifierOutcomes == {"sent", "failed", "raised"}

\* _notify without its try/except: what send_text raises leaves the call
_notify_Propagating(outcome) == outcome = "raised"

\* TRUE iff an exception leaves _notify(text) when send_text ends in outcome
_notify(outcome) == FALSE

\* the head of submit_with_risk left at the notification that follows the
\* registration and its save: the exception ends the cycle in main
SubmitBegin_Interrupted ==
    /\ pc = "submit"
    /\ queue # <<>>
    /\ \E lv \in RefreshedLive(mode, live, now), pos \in RefreshedPositions(positions, TradedTokens(env)) :
          LET order == Head(queue)
              key == _order_key(order)
              cleaned == cleanup(orders, now)
              skip == should_skip(cleaned, key) \/ _position_exposure(pos, order.token) > 0
              registered == upsert_order(cleaned, key, PlannedPatch(order), now)
          IN  /\ live' = lv
              /\ positions' = pos
              /\ IF skip
                 THEN /\ orders' = cleaned
                      /\ disk' = disk
                      /\ pass' = SubmitPass(order, <<>>, <<>>)
                      /\ queue' = Tail(queue)
                      /\ pc' = "submit"
                 ELSE IF HasOrder(cleaned, key)
                 THEN /\ orders' = cleaned
                      /\ disk' = disk
                      /\ pass' = SubmitPass(order, _plan_children(order), <<>>)
                      /\ queue' = queue
                      /\ pc' = "child"
                 ELSE /\ orders' = registered
                      /\ disk' = save(registered, paper)
                      /\ pass' = NoPass
                      /\ queue' = <<>>
                      /\ pc' = "idle"
    /\ UNCHANGED <<mode, env, now, crashes, traded_keys, last_trade_ts, consecutive_losses,
                   paper, ledger, accepted, emitted>>

\* a child left at the notification that follows executor.submit: neither
\* the account nor the record sees the child, and the cycle ends in main
ChildSubmit_Interrupted(resp) ==
    /\ InChildLoop
    /\ ~ChildExpired
    /\ LET notional == ChildNotional(mode, CurrentChild, orders, paper, live, positions)
           child == ClampedChild(CurrentChild, notional)
       IN  /\ notional >= 0
           /\ accepted' = IF resp.success
                          THEN [accepted EXCEPT ![pass.key] = @ + child.notional]
                          ELSE accepted
    /\ pass' = NoPass
    /\ queue' = <<>>
    /\ pc' = "idle"
    /\ UNCHANGED <<mode, env, now, crashes, traded_keys, last_trade_ts, consecutive_losses,
                   orders, paper, disk, ledger, positions, live, emitted>>

\* one record of poll_status with every notification raising: after the
\* record is marked filled the inner except lets the expiry test run on it,
\* and after a paper settlement the outer except skips store.save()
PollOrder_Interrupted(key, fetch, settlement_fee) ==
    /\ pc = "poll"
    /\ key \in pass.todo
    /\ LET st == orders[key]
           held == st.token_id \in positions.held
           due == now > st.end_time
           actual == IF fetch = "Fail" THEN "Unknown" ELSE fetch
           win == fetch # "Fail" /\ actual = st.outcome
           total_notional == Field(st, "total_notional", 0)
           total_size == Field(st, "total_size", 0)
           fee_paid == Field(st, "fee_paid", 0)
           payout == IF win THEN total_size ELSE 0
           pnl == payout - total_notional - fee_paid - settlement_fee
           settled == _paper_apply_settlement(paper, pnl, payout, win, settlement_fee)
           marked == IF held
                     THEN SetFields(orders, key, [status |-> "filled", updated_at |-> now])
                     ELSE orders
       IN  IF Field(st, "status", "") # "submitted"
           THEN /\ pc' = "poll"
                /\ UNCHANGED <<orders, paper, ledger, consecutive_losses>>
           ELSE IF ~due
           THEN /\ orders' = marked
                /\ pc' = "poll"
                /\ UNCHANGED <<paper, ledger, consecutive_losses>>
           ELSE /\ consecutive_losses' =
                      IF fetch = "Fail" THEN consecutive_losses
                      ELSE update_trade_result(consecutive_losses, st.asset_symbol, win)
                /\ pc' = "poll"
                /\ IF SettlesLocally(mode)
                   THEN /\ paper' = settled
                        /\ ledger' = Append(ledger, SettleEntry(key, st, actual, payout, pnl,
                                                                _paper_cash(settled)))
                        /\ orders' = SetFields(marked, key,
                                        [status |-> "settled",
                                         result |-> IF win THEN "win" ELSE "lose"])
                   ELSE /\ orders' = SetFields(marked, key,
                                        [status |-> "expired", updated_at |-> now])
                        /\ UNCHANGED <<paper, ledger>>
    /\ pass' = [pass EXCEPT !.todo = @ \ {key}]
    /\ UNCHANGED <<mode, env, now, crashes, traded_keys, last_trade_ts, disk, positions, live,
                   queue, accepted, emitted>>

NotifiedSubmitBegin ==
    IF _notify(env.notifier) THEN SubmitBegin_Interrupted ELSE SubmitBegin

NotifiedChildSubmit(resp) ==
    IF _notify(env.notifier) THEN ChildSubmit_Interrupted(resp) ELSE ChildSubmit(resp)

NotifiedPollOrder(key, fetch, settlement_fee) ==
    IF _notify(env.notifier) THEN PollOrder_Interrupted(key, fetch, settlement_fee)
    ELSE PollOrder(key, fetch, settlement_fee)

\* the program of Spec with a notifier that, for the whole run, delivers,
\* reports failure, or raises
NotifyInit ==
    /\ mode \in {"paper", "live"}
    /\ \E n \in NotifierOutcomes : env = [markets |-> {1}, sides |-> {"Up"}, notifier |-> n]
    /\ now = 1
    /\ pc = "idle"
    /\ crashes = 0
    /\ traded_keys = {}
    /\ last_trade_ts = [a \in Assets |-> 0]
    /\ consecutive_losses = [a \in Assets |-> 0]
    /\ orders = EmptyDict
    /\ paper = IF mode = "paper" THEN InitialPaper ELSE EmptyDict
    /\ disk = save(orders, paper)
    /\ ledger = <<>>
    /\ positions = [held |-> {}, value |-> 0]
    /\ live = [cash |-> LiveInitialCash, total_value |-> -1, positions_value |-> -1,
               spent_until |-> 0]
    /\ queue = <<>>
    /\ pass = NoPass
    /\ accepted = [k \in Keys |-> 0]
    /\ emitted = [m \in Markets |-> 0]

NotifyNext ==
    \/ Tick
    \/ \E ms \in MarketLists(env.markets), offers \in [env.markets -> OffersOn(env.sides)] :
          GenerateOrdersWith(ms, offers)
    \/ NotifiedSubmitBegin
    \/ ChildContinue
    \/ ChildBreak
    \/ \E resp \in Replies(mode) : NotifiedChildSubmit(resp)
    \/ ChildSave
    \/ SubmitReturn
    \/ PollBegin
    \/ \E key \in Keys, fetch \in Fetches, fee \in SettlementFees :
          NotifiedPollOrder(key, fetch, fee)
    \/ PollSave
    \/ PollEnd

NotifySpec == NotifyInit /\ [][NotifyNext]_vars

\* a step of the cycle as it runs when every notification is delivered
DeliveredStep ==
    \/ Tick
    \/ \E ms \in MarketLists(env.markets), offers \in [env.markets -> OffersOn(env.sides)] :
          GenerateOrdersWith(ms, offers)
    \/ SubmitBegin
    \/ ChildContinue
    \/ ChildBreak
    \/ \E resp \in Replies(mode) : ChildSubmit(resp)
    \/ ChildSave
    \/ SubmitReturn
    \/ PollBegin
    \/ \E key \in Keys, fetch \in Fetches, fee \in SettlementFees : PollOrder(key, fetch, fee)
    \/ PollSave
    \/ PollEnd

\* C29: with a notifier that reports failure or raises, every step of
\* submit_with_risk and poll_status is the step the same call makes when the
\* notification is delivered: no handler is left early, and the order
\* records, the accounts, the state file and the transport submissions that
\* result are the same.
C29_NotifierFailuresSwallowed ==
    [][env.notifier # "sent" => DeliveredStep]_vars

\* A child was accepted by the transport, its record reads submitted and the
\* paper account is debited, all past a notification that raised.
C29_Witness ==
    /\ env.notifier = "raised"
    /\ mode = "paper"
    /\ pc = "child_save"
    /\ pass.kind = "submit"
    /\ LastResult(pass).success
    /\ StatusOf(orders, pass.key) = "submitted"
    /\ accepted[pass.key] > 0
    /\ _paper_cash(paper) < PaperInitialCash


(***************************************************************************)
(* The control loop of main (src/runner_live.py, lines 92-147).  A cycle  *)
(* runs its stages inside one try; pass.stage is the position of the      *)
(* process, pass.cycles the number of cycles begun (it stops counting at  *)
(* MaxCycles, the loop itself goes on), pass.pending tells that an        *)
(* exception of the cycle has not been handed to the notifier yet, and    *)
(* pass.exit how the process ended, if it did.                             *)
(***************************************************************************)
MaxCycles == 3

CycleStages == <<"fetch", "generate", "submit", "poll">>

\* How a stage of the cycle can end.  The market fetch, the submissions and
\* the poll return or raise.  strategy.generate_orders is called with two
\* arguments (line 130) and takes one, so that call always raises.
StageOutcomes(i) ==
    IF CycleStages[i] = "generate" THEN {"raise"} ELSE {"ok", "raise"}

\* an except clause that raises again whatever the mode
after_exception_Reraise(run_once) == "raised"

\* the end of the except clause: raise in single-run mode, else sleep(1.0)
after_exception(run_once) == IF run_once THEN "raised" ELSE "brief_sleep"

\* the end of a cycle that did not raise: return in single-run mode, else
\* sleep(poll_interval_seconds)
after_cycle(run_once) == IF run_once THEN "returned" ELSE "sleep"

LoopPass(run_once, skip_fetch) ==
    [kind |-> "loop", run_once |-> run_once, skip_fetch |-> skip_fetch, stage |-> 1,
     cycles |-> 1, pending |-> FALSE, reports |-> 0, exit |-> "no"]

LoopInit ==
    /\ mode \in {"paper", "live"}
    /\ \E n \in {"sent", "failed"} : env = [markets |-> {1}, sides |-> {"Up"}, notifier |-> n]
    /\ now = 1
    /\ pc = "try"
    /\ crashes = 0
    /\ traded_keys = {}
    /\ last_trade_ts = [a \in Assets |-> 0]
    /\ consecutive_losses = [a \in Assets |-> 0]
    /\ orders = EmptyDict
    /\ paper = IF mode = "paper" THEN InitialPaper ELSE EmptyDict
    /\ disk = save(orders, paper)
    /\ ledger = <<>>
    /\ positions = [held |-> {}, value |-> 0]
    /\ live = [cash |-> LiveInitialCash, total_value |-> -1, positions_value |-> -1,
               spent_until |-> 0]
    /\ queue = <<>>
    /\ \E run_once \in BOOLEAN, skip_fetch \in BOOLEAN : pass = LoopPass(run_once, skip_fetch)
    /\ accepted = [k \in Keys |-> 0]
    /\ emitted = [m \in Markets |-> 0]

LoopFrame ==
    UNCHANGED <<mode, env, now, crashes, traded_keys, last_trade_ts, consecutive_losses,
                orders, paper, disk, ledger, positions, live, queue, accepted, emitted>>

\* the end of the try body, by the SKIP_MARKET_FETCH branch or after the poll
CycleEnds ==
    LET to == after_cycle(pass.run_once)
    IN  /\ pc' = IF to = "returned" THEN "exited" ELSE to
        /\ pass' = [pass EXCEPT !.exit = IF to = "returned" THEN to ELSE @]

\* SKIP_MARKET_FETCH: the cycle does nothing
SkippedCycle ==
    /\ pc = "try"
    /\ pass.skip_fetch
    /\ CycleEnds
    /\ LoopFrame

\* one stage of the try body
CycleStage(outcome) ==
    /\ pc = "try"
    /\ ~pass.skip_fetch
    /\ outcome \in StageOutcomes(pass.stage)
    /\ IF outcome = "raise"
       THEN /\ pc' = "except"
            /\ pass' = [pass EXCEPT !.pending = TRUE]
       ELSE IF pass.stage < Len(CycleStages)
       THEN /\ pc' = "try"
            /\ pass' = [pass EXCEPT !.stage = @ + 1]
       ELSE CycleEnds
    /\ LoopFrame

\* the except clause: notifier.send_text, then raise or sleep(1.0)
ExceptClause ==
    /\ pc = "except"
    /\ LET to == after_exception(pass.run_once)
       IN  /\ pc' = IF to = "raised" THEN "exited" ELSE to
           /\ pass' = [pass EXCEPT !.pending = FALSE,
                                   !.reports = Min(@ + 1, MaxCycles),
                                   !.exit = IF to = "raised" THEN to ELSE @]
    /\ LoopFrame

\* a sleep ends and the next cycle begins
NextCycle ==
    /\ pc \in {"sleep", "brief_sleep"}
    /\ pc' = "try"
    /\ pass' = [pass EXCEPT !.stage = 1, !.cycles = Min(@ + 1, MaxCycles)]
    /\ now' = Min(now + 1, MaxTime)
    /\ UNCHANGED <<mode, env, crashes, traded_keys, last_trade_ts, consecutive_losses,
                   orders, paper, disk, ledger, positions, live, queue, accepted, emitted>>

LoopNext ==
    \/ SkippedCycle
    \/ \E outcome \in {"ok", "raise"} : CycleStage(outcome)
    \/ ExceptClause
    \/ NextCycle

LoopSpec == LoopInit /\ [][LoopNext]_vars

\* C30: in loop mode an exception of a cycle is handed to the notifier and
\* followed by the brief sleep and the next cycle, and the process never
\* ends; in single-run mode the process ends in its first cycle, by return
\* or by the exception, and never sleeps or begins a second cycle.
C30_LoopResilience ==
    [][pass.kind = "loop" =>
        /\ pc = "except" /\ ~pass.run_once
             => pc' = "brief_sleep" /\ ~pass'.pending /\ pass'.reports > 0
        /\ pc = "brief_sleep" => pc' = "try" /\ pass'.stage = 1
        /\ ~pass.run_once => pass'.exit = "no" /\ pc' # "exited"
        /\ pass.run_once => /\ pass'.cycles = 1
                            /\ pc' \in {"try", "except", "exited"}
                            /\ pc = "except" => pc' = "exited" /\ ~pass'.pending
                            /\ pc = "try" /\ pc' = "try" => pass'.stage > pass.stage
                            /\ pc' = "exited" <=> pass'.exit \in {"returned", "raised"}
    ]_vars

\* In loop mode a third cycle is running after two cycles that raised.
C30_Witness ==
    /\ pass.kind = "loop"
    /\ ~pass.run_once
    /\ pc = "try"
    /\ pass.cycles = 3
    /\ pass.reports >= 2
    /\ pass.exit = "no"


\* ------------------------------------------------------- lost settlements
\* C31: in paper mode a record with at least one child accepted by the
\* transport is, once its expiry has passed, settled by some later
\* poll_status, while the polling cycle keeps running
C31_NoLostSettlement ==
    \A k \in Keys :
       (mode = "paper" /\ accepted[k] > 0 /\ now > EndOf(k[1]))
          ~> (StatusOf(orders, k) = "settled")


\* ------------------------------------------------------ per-cycle data flow
\* C32: a cycle whose market fetch is not skipped runs generate_orders, then
\* submit_with_risk for the emitted intents, then poll_status, and only then
\* sleeps or returns; the generate_orders call itself does not raise, so
\* with collaborators that do not fail the cycle reaches the submissions
\* and the poll
C32_CycleDataFlow ==
    [][pass.kind = "loop" /\ pc = "try" /\ ~pass.skip_fetch =>
        /\ pc' = "except" => CycleStages[pass.stage] # "generate"
        /\ pc' = "try" => pass'.stage = pass.stage + 1
        /\ pc' \in {"sleep", "exited"} => CycleStages[pass.stage] = "poll"
    ]_vars


\* ---------------------------------------------------------- child-loop guards
\* the headroom the child loop reads before each child
HeadroomNow == _remaining_total_exposure_usd(mode, orders, paper, live, positions)

\* C33: a child is passed to the transport only while the time is before its
\* market's expiry and the exposure headroom is positive; an expired child
\* is passed over and the loop goes on with the next child; with a headroom
\* <= 0 the loop is left, so that no further child of the intent is
\* submitted in the pass
C33_ChildLoopGuards ==
    [][pc = "child" /\ pass.kind = "submit" /\ pass.next <= Len(pass.children) =>
        /\ pc' = "child_save"
             => now < pass.children[pass.next].end_time /\ HeadroomNow > 0
        /\ pc' # "child_save" => accepted' = accepted
        /\ pc' = "child" /\ pass' # pass /\ now >= pass.children[pass.next].end_time
             => pass'.next = pass.next + 1 /\ pass'.results = pass.results
        /\ pc' = "child" /\ pass' # pass /\ now < pass.children[pass.next].end_time
             /\ HeadroomNow <= 0
             => pass'.next > Len(pass.children) /\ pass'.results = pass.results
    ]_vars

\* The first child of an intent was accepted, the market expired during the
\* spacing sleep, and the second child was passed over.
C33_Witness ==
    /\ pc = "child"
    /\ pass.kind = "submit"
    /\ Len(pass.children) = 2
    /\ pass.next = 3
    /\ Len(pass.results) = 1
    /\ now >= pass.order.end_time
    /\ accepted[pass.key] = pass.results[1].notional


\* ------------------------------------------------------------ fill detection
\* C34: while poll_status runs, a record that is not submitted is left as it
\* is, and a submitted record whose token is held in the position snapshot
\* is marked filled when the loop reaches it, with no settlement applied:
\* the paper account, the ledger and the loss counters stay as they were,
\* before or after the expiry
C34_FillDetection ==
    [][pc = "poll" /\ crashes' = crashes =>
        \A k \in DOMAIN orders :
           /\ StatusOf(orders, k) # "submitted"
                => k \in DOMAIN orders' /\ orders'[k] = orders[k]
           /\ StatusOf(orders, k) = "submitted" /\ orders[k].token_id \in positions.held
                /\ k \in pass.todo /\ k \notin pass'.todo
                => /\ StatusOf(orders', k) = "filled"
                   /\ paper' = paper
                   /\ ledger' = ledger
                   /\ consecutive_losses' = consecutive_losses
                   /\ pc' = "poll"
    ]_vars

\* A paper record past its expiry has just been marked filled by the poll,
\* and nothing was settled.
C34_Witness ==
    /\ mode = "paper"
    /\ pc = "poll"
    /\ \E k \in DOMAIN orders :
          /\ StatusOf(orders, k) = "filled"
          /\ orders[k].updated_at = now
          /\ now > orders[k].end_time
          /\ orders[k].token_id \in positions.held
          /\ k \notin pass.todo
    /\ \A i \in DOMAIN ledger : ledger[i].event # "settle"
    /\ paper.realized_pnl = 0


\* ------------------------------------------------------- paper accounting
\* C35: in paper mode, whenever every record of the store that has accepted
\* children is settled, the paper cash is the initial cash plus the realized
\* pnl: what the buys of a record took and its settlement gave back is the
\* pnl booked for it
C35_PaperConservation ==
    (mode = "paper"
       /\ \A k \in DOMAIN orders : accepted[k] > 0 => StatusOf(orders, k) = "settled")
      => _paper_cash(paper) = PaperInitialCash + paper.realized_pnl


(***************************************************************************)
(* The paper account under submit_with_risk and poll_status, from any     *)
(* initial cash (PAPER_INITIAL_CASH) in 0..MaxAccountCash and with the    *)
(* settlement fee, which FeeService computes from the gas price and the   *)
(* token price it last fetched, anywhere in 0..MaxSettlementFee.           *)
(***************************************************************************)
MaxAccountCash == 3

MaxSettlementFee == 3

AccountInit ==
    /\ mode = "paper"
    /\ env = [markets |-> {1}, sides |-> {"Up"}]
    /\ now = 1
    /\ pc = "idle"
    /\ crashes = 0
    /\ traded_keys = {}
    /\ last_trade_ts = [a \in Assets |-> 0]
    /\ consecutive_losses = [a \in Assets |-> 0]
    /\ orders = EmptyDict
    /\ \E cash \in 0..MaxAccountCash : paper = [InitialPaper EXCEPT !.cash = cash]
    /\ disk = save(orders, paper)
    /\ ledger = <<>>
    /\ positions = [held |-> {}, value |-> 0]
    /\ live = [cash |-> LiveInitialCash, total_value |-> -1, positions_value |-> -1,
               spent_until |-> 0]
    /\ queue = <<>>
    /\ pass = NoPass
    /\ accepted = [k \in Keys |-> 0]
    /\ emitted = [m \in Markets |-> 0]

AccountNext ==
    \/ Tick
    \/ \E m \in env.markets, offer \in [side : env.sides, ask : Asks] : SubmitAny(m, offer)
    \/ SubmitBegin
    \/ ChildContinue
    \/ ChildBreak
    \/ \E resp \in Replies(mode) : ChildSubmit(resp)
    \/ ChildSave
    \/ SubmitReturn
    \/ PollBegin
    \/ \E key \in Keys, fetch \in Fetches, fee \in 0..MaxSettlementFee :
          PollOrder(key, fetch, fee)
    \/ PollSave
    \/ PollEnd

AccountSpec == AccountInit /\ [][AccountNext]_vars

\* C36: starting from a cash >= 0, the paper account's cash is >= 0 after
\* every buy and every settlement
C36_PaperCashNonNegative == _paper_cash(paper) >= 0


\* ------------------------------------------------------- win/loss agreement
\* C37: the win flag of every settle entry of the paper ledger says whether
\* the actual outcome was the predicted one, as the result stored on the
\* order record and the store's wins and losses do
C37_WinLossAgreement ==
    \A i \in DOMAIN ledger :
       ledger[i].event = "settle"
          => ledger[i].win = (ledger[i].actual_outcome = ledger[i].predicted_outcome)


(***************************************************************************)
(* PaperLedger's statistics file (src/paper_ledger.py).  The file is a    *)
(* dictionary; its keys are written in Chinese in the source and appear   *)
(* here under English names: initial_funds, current_balance,              *)
(* realized_pnl, fee_total, buy_count, settle_count, win_count,           *)
(* loss_count, buy_total, settle_total.  The key that _ensure_stats       *)
(* looks for is the string "initial_cash".  pass.stats is the file, or    *)
(* Absent before the first construction.                                   *)
(***************************************************************************)
MaxLedgerEvents == 2

MaxLedgerRestarts == 2

FreshStats(initial_cash) ==
    [initial_funds |-> initial_cash, current_balance |-> initial_cash, realized_pnl |-> 0,
     fee_total |-> 0, buy_count |-> 0, settle_count |-> 0, win_count |-> 0,
     loss_count |-> 0, buy_total |-> 0, settle_total |-> 0]

\* PaperLedger._ensure_stats: the file is kept if it is a dictionary with
\* the key "initial_cash", and written afresh otherwise
_ensure_stats(st, initial_cash) ==
    IF st # Absent /\ "initial_cash" \in DOMAIN st THEN st ELSE FreshStats(initial_cash)

\* the statistics part of record_buy
StatsAfterBuy(st, notional, fee_paid, cash_after) ==
    [st EXCEPT !.current_balance = cash_after,
               !.fee_total = @ + fee_paid,
               !.buy_count = @ + 1,
               !.buy_total = @ + notional]

\* the statistics part of record_settlement
StatsAfterSettlement(st, pnl, payout, cash_after) ==
    LET win == pnl >= 0 /\ payout > 0
    IN  [st EXCEPT !.current_balance = cash_after,
                   !.realized_pnl = @ + pnl,
                   !.settle_count = @ + 1,
                   !.win_count = IF win THEN @ + 1 ELSE @,
                   !.loss_count = IF win THEN @ ELSE @ + 1,
                   !.settle_total = @ + payout]

LedgerInit ==
    /\ mode = "paper"
    /\ env = [markets |-> {1}, sides |-> {"Up"}]
    /\ now = 1
    /\ pc = "ledger"
    /\ crashes = 0
    /\ traded_keys = {}
    /\ last_trade_ts = [a \in Assets |-> 0]
    /\ consecutive_losses = [a \in Assets |-> 0]
    /\ orders = EmptyDict
    /\ paper = InitialPaper
    /\ disk = save(orders, paper)
    /\ ledger = <<>>
    /\ positions = [held |-> {}, value |-> 0]
    /\ live = [cash |-> LiveInitialCash, total_value |-> -1, positions_value |-> -1,
               spent_until |-> 0]
    /\ queue = <<>>
    /\ pass = [kind |-> "ledger", stats |-> _ensure_stats(Absent, PaperInitialCash),
               events |-> 0, restarts |-> 0]
    /\ accepted = [k \in Keys |-> 0]
    /\ emitted = [m \in Markets |-> 0]

LedgerFrame ==
    UNCHANGED <<mode, env, now, pc, crashes, traded_keys, last_trade_ts, consecutive_losses,
                orders, paper, disk, ledger, positions, live, queue, accepted, emitted>>

\* record_buy for a buy of the given notional
RecordBuy(notional) ==
    /\ pc = "ledger"
    /\ pass.events < MaxLedgerEvents
    /\ notional <= pass.stats.current_balance
    /\ pass' = [pass EXCEPT
          !.stats = StatsAfterBuy(@, notional, 0, @.current_balance - notional),
          !.events = @ + 1]
    /\ LedgerFrame

\* record_settlement with the given pnl and payout
RecordSettlement(pnl, payout) ==
    /\ pc = "ledger"
    /\ pass.events < MaxLedgerEvents
    /\ pass' = [pass EXCEPT
          !.stats = StatsAfterSettlement(@, pnl, payout, @.current_balance + payout),
          !.events = @ + 1]
    /\ LedgerFrame

\* the process starts again: PaperLedger is constructed over the files of
\* the previous run
LedgerRestart ==
    /\ pc = "ledger"
    /\ pass.restarts < MaxLedgerRestarts
    /\ pass' = [pass EXCEPT !.stats = _ensure_stats(@, PaperInitialCash),
                            !.events = 0,
                            !.restarts = @ + 1]
    /\ LedgerFrame

LedgerNext ==
    \/ \E notional \in 1..2 : RecordBuy(notional)
    \/ \E pnl \in {-2, -1, 1, 2}, payout \in {0, 4} : RecordSettlement(pnl, payout)
    \/ LedgerRestart

LedgerSpec == LedgerInit /\ [][LedgerNext]_vars

\* C38: constructing a PaperLedger over the statistics file of a previous
\* run leaves the balance, the realized pnl, the fee total and the buy,
\* settle, win and loss counts as that run wrote them
C38_StatsSurviveRestart ==
    [][pass.kind = "ledger" /\ pass'.restarts = pass.restarts + 1
         => pass'.stats = pass.stats]_vars


\* ------------------------------------------------------- open-order limit
\* submit_with_risk and poll_status called in any order for three markets
\* that are open at the same time, by a paper account whose cash leaves
\* exposure headroom for more records than paper_max_open_orders
MaxOpenCash == 20
MaxOpenTime == 4
MaxOpenCalls == 3

OpenMarkets == {1, 2, 8}

OpenInit ==
    /\ mode = "paper"
    /\ env = [markets |-> OpenMarkets, sides |-> {"Up"}]
    /\ now = 1
    /\ pc = "idle"
    /\ crashes = 0
    /\ traded_keys = {}
    /\ last_trade_ts = [a \in Assets |-> 0]
    /\ consecutive_losses = [a \in Assets |-> 0]
    /\ orders = EmptyDict
    /\ paper = [InitialPaper EXCEPT !.cash = MaxOpenCash]
    /\ disk = save(orders, paper)
    /\ ledger = <<>>
    /\ positions = [held |-> {}, value |-> 0]
    /\ live = [cash |-> LiveInitialCash, total_value |-> -1, positions_value |-> -1,
               spent_until |-> 0]
    /\ queue = <<>>
    /\ pass = NoPass
    /\ accepted = [k \in Keys |-> 0]
    /\ emitted = [m \in Markets |-> 0]

OpenTick ==
    /\ pc = "idle"
    /\ now < MaxOpenTime
    /\ now' = now + 1
    /\ UNCHANGED <<mode, env, pc, crashes, traded_keys, last_trade_ts, consecutive_losses,
                   orders, paper, disk, ledger, positions, live, queue, pass, accepted, emitted>>

\* the calls of submit_with_risk made so far
OpenCalls == emitted[1] + emitted[2] + emitted[8]

\* one call of submit_with_risk with one intent for market m
OpenSubmit(m, offer) ==
    /\ pc = "idle"
    /\ OpenCalls < MaxOpenCalls
    /\ emitted' = [emitted EXCEPT ![m] = @ + 1]
    /\ queue' = <<Intent(m, offer, SingleIntentNotional)>>
    /\ pc' = "submit"
    /\ UNCHANGED <<mode, env, now, crashes, traded_keys, last_trade_ts, consecutive_losses,
                   orders, paper, disk, ledger, positions, live, pass, accepted>>

OpenNext ==
    \/ OpenTick
    \/ \E m \in env.markets, offer \in [side : env.sides, ask : {500}] : OpenSubmit(m, offer)
    \/ SubmitBegin
    \/ ChildContinue
    \/ ChildBreak
    \/ \E resp \in Replies(mode) : ChildSubmit(resp)
    \/ ChildSave
    \/ SubmitReturn
    \/ PollBegin
    \/ \E key \in Keys, fetch \in Fetches : PollOrder(key, fetch, 0)
    \/ PollSave
    \/ PollEnd

OpenSpec == OpenInit /\ [][OpenNext]_vars

SubmittedRecords == {k \in DOMAIN orders : Field(orders[k], "status", "") = "submitted"}

\* C39: in paper mode the number of records with status submitted never
\* exceeds paper_max_open_orders, and no child is handed to the executor
\* while that number is already at the limit
C39_OpenOrderLimit ==
    /\ Cardinality(SubmittedRecords) <= PaperMaxOpenOrders
    /\ [][/\ Cardinality(SubmittedRecords') <= PaperMaxOpenOrders
          /\ (pc = "child" /\ pc' = "child_save")
                => Cardinality(SubmittedRecords) < PaperMaxOpenOrders]_vars

\* the limit is reached while a child of a live market is next, the account
\* has cash and the exposure cap leaves headroom: the count alone stops it
C39_Witness ==
    /\ InChildLoop
    /\ ~ChildExpired
    /\ Cardinality(SubmittedRecords) = PaperMaxOpenOrders
    /\ _paper_cash(paper) > 0
    /\ HeadroomNow >= PaperMinNotional
    /\ pass.key \notin SubmittedRecords


\* ------------------------------------------------------- breaker recovery
\* what can still call update_trade_result for an asset: its records that
\* poll_status has yet to settle, and its intents waiting to be submitted
OutstandingFor(a) ==
    {k \in DOMAIN orders : AssetOf(k[1]) = a /\ Field(orders[k], "status", "") = "submitted"}
       \cup {<<"intent", i>> : i \in {j \in DOMAIN queue : queue[j].asset = a}}

BlockedForGood(a) ==
    /\ _has_too_many_losses(consecutive_losses, a)
    /\ OutstandingFor(a) = {}

\* an asset blocked with nothing outstanding stays so at every step of the
\* process
BlockedStays == [][\A a \in Assets : BlockedForGood(a) => BlockedForGood(a)']_vars

\* C40: from every state in which the breaker blocks an asset, a win for the
\* asset can still be recorded and an intent for it emitted again: the asset
\* is never blocked at a moment when nothing of it is outstanding
C40_BreakerRecovery == \A a \in Assets : ~BlockedForGood(a)

====
